---- MODULE Spec2Model ----
(***************************************************************************)
(* A model of editorlint (cdobbyn/editorlint): the rule registry and the   *)
(* per-file fix loop (pkg/rules, pkg/validator), the glob-to-regex         *)
(* conversion and the configuration hierarchy (pkg/config), and the        *)
(* exclusion list, the directory walk, ValidateTarget and the worker       *)
(* pipeline (pkg/validator).                                               *)
(*                                                                         *)
(* File contents, patterns and paths are sequences of one-character        *)
(* strings.  A Go pointer to a bool or an int is <<>> for nil and <<v>>     *)
(* for a pointer to v.                                                     *)
(***************************************************************************)
EXTENDS Integers, Sequences, FiniteSets, TLC

VARIABLES
  \* ---- fixSingleFile (pkg/validator) ----
  disk,       \* the bytes of the target file on disk
  cfg,        \* the ResolvedConfig of the target file
  content,    \* fixSingleFile's local `content`
  idx,        \* index of the next fixer of the loop over GetAllFixers()
  modified,   \* fixSingleFile's local `modified`
  applied,    \* names of the fixers already called in this run, in call order
  changes,    \* the `changed` flag each of them returned
  run,        \* number of the current run of fixSingleFile on the file
  pc,         \* position inside fixSingleFile
  \* ---- ConvertPatternToRegex / matchesPattern (pkg/config) ----
  pattern,    \* the glob pattern
  path,       \* the relative, slash-separated path
  regex,      \* the text ConvertPatternToRegex returned
  matched,    \* the result of regexp.MatchString
  ppc,        \* position inside matchesPattern
  \* ---- FindEditorConfigsWithCustomConfig / ResolveConfigForFile ----
  fs,         \* directory level -> the parsed .editorconfig there, or NoDoc
  custom,     \* the custom configuration path: NoCustom, or a directory level
  dir,        \* the directory the discovery loop is looking at
  configs,    \* the accumulated list of documents
  resolved,   \* the ResolvedConfig returned
  cpc,        \* position inside discovery / resolution
  \* ---- shouldIgnore (pkg/validator) ----
  excludePatterns,  \* Config.ExcludePatterns
  normalizedPath,   \* the slash-separated path handed to shouldIgnore
  ignored,          \* the result of shouldIgnore
  ipc,              \* position inside shouldIgnore
  \* ---- one call of a validator or of a fixer (pkg/rules) ----
  input,      \* the content handed to the function
  ruleCfg,    \* the ResolvedConfig handed to the function
  called,     \* the name of the function called
  verdict,    \* what a validator returned: Nil or a pointer to a ValidationError
  output,     \* what a fixer returned: the content and the changed flag
  rpc,        \* position: before the call or after the return
  \* ---- ValidateTarget and the parallel pipeline (pkg/validator) ----
  target,     \* what the target path names: "file" or "dir"
  failure,    \* what fails in the environment of the run, "none" if nothing
  fixMode,    \* Config.Fix
  files,      \* the files the run enumerates, in walk order
  fdisk,      \* file index -> the bytes of that file on disk
  jobs,       \* the buffer of the jobs channel (file indexes)
  jobsClosed, \* close(jobs) has run
  nextJob,    \* index of the next file the sending goroutine sends
  results,    \* the buffer of the results channel
  resultsClosed,  \* close(results) has run
  workers,    \* worker -> its position, its job and the result it holds
  collected,  \* allErrors (validate mode) or fixedFiles (fix mode)
  mainpc,     \* position of the calling goroutine
  ret,        \* the error ValidateTarget returns ("nil" for no error)
  total,      \* Result.TotalFiles, the number of files the run reports
  handled,    \* file index -> how many times a worker processed the file
  customJob,  \* index in files of Config.CustomConfigPath, 0 if not among them
  \* ---- collectFiles (pkg/validator) ----
  tree,       \* the entries of the target directory, by name
  recursive,  \* Config.Recursive
  walked,     \* the paths collectFiles returns, in walk order
  wpc         \* position: before the walk or after it

fixVars == <<disk, cfg, content, idx, modified, applied, changes, run, pc>>
patVars == <<pattern, path, regex, matched, ppc>>
cfgVars == <<fs, custom, dir, configs, resolved, cpc>>
ignVars == <<excludePatterns, normalizedPath, ignored, ipc>>
ruleVars == <<input, ruleCfg, called, verdict, output, rpc>>
runVars == <<target, failure, fixMode, files, fdisk, jobs, jobsClosed, nextJob,
             results, resultsClosed, workers, collected, mainpc, ret, total,
             handled, customJob>>
walkVars == <<tree, recursive, walked, wpc>>
vars == <<fixVars, patVars, cfgVars, ignVars, ruleVars, runVars, walkVars>>

----------------------------------------------------------------------------
(* Bounds of the model *)

\* longest file content, in bytes
MaxLen == 4
\* how many times fixSingleFile is run on the same file
MaxRuns == 2

----------------------------------------------------------------------------
(* Bytes and byte-slice helpers (package bytes / strings) *)

CR == "\r"
LF == "\n"
SP == " "
TAB == "\t"

\* the bytes file contents are made of
Byte == {"a", SP, TAB, CR, LF}

RECURSIVE SeqsUpTo(_, _)
SeqsUpTo(S, n) ==
  IF n = 0 THEN {<<>>}
  ELSE LET shorter == SeqsUpTo(S, n - 1)
       IN shorter \cup {Append(s, c) : s \in {t \in shorter : Len(t) = n - 1}, c \in S}

Drop(s, n) == SubSeq(s, n + 1, Len(s))
Take(s, n) == SubSeq(s, 1, n)

HasPrefix(s, p) == Len(s) >= Len(p) /\ Take(s, Len(p)) = p

\* bytes.Contains / strings.Contains
Contains(s, sub) == \E i \in 1..(Len(s) + 1) : HasPrefix(Drop(s, i - 1), sub)

\* bytes.ReplaceAll / strings.ReplaceAll for a non-empty `old`:
\* leftmost, non-overlapping occurrences
RECURSIVE ReplaceAll(_, _, _)
ReplaceAll(s, old, new) ==
  IF Len(s) < Len(old) THEN s
  ELSE IF HasPrefix(s, old) THEN new \o ReplaceAll(Drop(s, Len(old)), old, new)
  ELSE <<Head(s)>> \o ReplaceAll(Tail(s), old, new)

\* bytes.Split / strings.Split on a one-byte separator
RECURSIVE Split(_, _)
Split(s, sep) ==
  IF \A i \in 1..Len(s) : s[i] # sep THEN <<s>>
  ELSE LET i == CHOOSE k \in 1..Len(s) : s[k] = sep /\ \A j \in 1..(k - 1) : s[j] # sep
       IN <<Take(s, i - 1)>> \o Split(Drop(s, i), sep)

\* strings.Join
RECURSIVE Join(_, _)
Join(parts, sep) ==
  IF Len(parts) = 0 THEN <<>>
  ELSE IF Len(parts) = 1 THEN parts[1]
  ELSE parts[1] \o sep \o Join(Tail(parts), sep)

isWhitespace(b) == b = SP \/ b = TAB

\* bytes.TrimRightFunc(line, r == ' ' || r == '\t')
RECURSIVE TrimRightWhitespace(_)
TrimRightWhitespace(line) ==
  IF Len(line) > 0 /\ isWhitespace(line[Len(line)])
  THEN TrimRightWhitespace(Take(line, Len(line) - 1))
  ELSE line

----------------------------------------------------------------------------
(* ResolvedConfig *)

Nil == <<>>
Ptr(v) == <<v>>

EmptyResolvedConfig ==
  [IndentStyle |-> "", IndentSize |-> Nil, TabWidth |-> Nil, EndOfLine |-> "",
   Charset |-> <<>>, TrimTrailingWhitespace |-> Nil, InsertFinalNewline |-> Nil,
   MaxLineLength |-> Nil]

BoolPtrs == {Nil, Ptr(TRUE), Ptr(FALSE)}
EndOfLineStyles == {"", "lf", "crlf", "cr"}

\* the resolved configurations the rules are run under
RuleConfigs ==
  {[EmptyResolvedConfig EXCEPT !.InsertFinalNewline = n,
                               !.TrimTrailingWhitespace = t,
                               !.EndOfLine = e] :
     n \in BoolPtrs, t \in BoolPtrs, e \in EndOfLineStyles}

\* a nil pointer taken for true
IsTrueOrUnset(p) == p = Nil \/ p[1]

IsTrue(p) == p # Nil /\ p[1]

----------------------------------------------------------------------------
(* The fixers (pkg/rules) *)

Fixed(c, ch) == [content |-> c, changed |-> ch]

EndingBytes(style) ==
  IF style = "crlf" THEN <<CR, LF>> ELSE IF style = "cr" THEN <<CR>> ELSE <<LF>>

FixInsertFinalNewline(c, config) ==
  IF ~IsTrue(config.InsertFinalNewline) THEN Fixed(c, FALSE)
  ELSE LET expectedEnding == IF config.EndOfLine = "" THEN "lf" ELSE config.EndOfLine
           expectedBytes == EndingBytes(expectedEnding)
           n == Len(c)
       IN IF n = 0 THEN Fixed(expectedBytes, TRUE)
          ELSE IF n >= 2 /\ c[n - 1] = CR /\ c[n] = LF
               THEN IF expectedEnding # "crlf"
                    THEN Fixed(Take(c, n - 2) \o expectedBytes, TRUE)
                    ELSE Fixed(c, FALSE)
          ELSE IF c[n] = CR
               THEN IF expectedEnding # "cr"
                    THEN Fixed(Take(c, n - 1) \o expectedBytes, TRUE)
                    ELSE Fixed(c, FALSE)
          ELSE IF c[n] = LF
               THEN IF expectedEnding # "lf"
                    THEN Fixed(Take(c, n - 1) \o expectedBytes, TRUE)
                    ELSE Fixed(c, FALSE)
          ELSE Fixed(c \o expectedBytes, TRUE)

FixTrimTrailingWhitespace(c, config) ==
  IF ~IsTrue(config.TrimTrailingWhitespace) THEN Fixed(c, FALSE)
  ELSE IF Len(c) = 0 THEN Fixed(c, FALSE)
  ELSE LET lineEnding == IF Contains(c, <<CR, LF>>) THEN <<CR, LF>>
                         ELSE IF Contains(c, <<CR>>) THEN <<CR>>
                         ELSE <<LF>>
           lines == Split(c, LF)
           n == Len(lines)
           \* the last line is skipped when it is empty
           trimmedLines == [i \in 1..n |->
                              IF i = n /\ Len(lines[i]) = 0 THEN lines[i]
                              ELSE TrimRightWhitespace(lines[i])]
           hasChanges == trimmedLines # lines
       IN IF ~hasChanges THEN Fixed(c, FALSE)
          \* every line but the last is followed by lineEnding
          ELSE Fixed(Join(trimmedLines, lineEnding), TRUE)

\* normalizeLineEndings that leaves a lone CR alone
normalizeLineEndingsKeepsCR(c, targetEnding) ==
  LET normalized == ReplaceAll(c, <<CR, LF>>, <<LF>>)
  IN IF targetEnding = <<LF>> THEN normalized
     ELSE ReplaceAll(normalized, <<LF>>, targetEnding)

normalizeLineEndings(c, targetEnding) ==
  LET normalized == ReplaceAll(ReplaceAll(c, <<CR, LF>>, <<LF>>), <<CR>>, <<LF>>)
  IN IF targetEnding = <<LF>> THEN normalized
     ELSE ReplaceAll(normalized, <<LF>>, targetEnding)

\* FixEndOfLine reporting a change whenever the rule is on
FixEndOfLineAlwaysChanged(c, config) ==
  IF config.EndOfLine = "" THEN Fixed(c, FALSE)
  ELSE IF Len(c) = 0 THEN Fixed(c, FALSE)
  ELSE Fixed(normalizeLineEndings(c, EndingBytes(config.EndOfLine)), TRUE)

FixEndOfLine(c, config) ==
  IF config.EndOfLine = "" THEN Fixed(c, FALSE)
  ELSE IF Len(c) = 0 THEN Fixed(c, FALSE)
  ELSE IF config.EndOfLine \notin {"lf", "crlf", "cr"} THEN Fixed(c, FALSE)
  ELSE LET result == normalizeLineEndings(c, EndingBytes(config.EndOfLine))
       IN Fixed(result, c # result)

\* the registry of fixers, in registry order
GetAllFixers == <<"FixInsertFinalNewline", "FixTrimTrailingWhitespace", "FixEndOfLine">>

\* calling a registered fixer
CallFixer(name, c, config) ==
  CASE name = "FixInsertFinalNewline" -> FixInsertFinalNewline(c, config)
    [] name = "FixTrimTrailingWhitespace" -> FixTrimTrailingWhitespace(c, config)
    [] name = "FixEndOfLine" -> FixEndOfLine(c, config)

----------------------------------------------------------------------------
(* The validators (pkg/rules).  A ValidationError is kept as its rule and  *)
(* the line number its message names (0 when the message names no line).   *)

ValidationError(rule, line) == [Rule |-> rule, Line |-> line]

ValidateInsertFinalNewline(c, config) ==
  IF ~IsTrue(config.InsertFinalNewline) THEN Nil
  ELSE IF Len(c) = 0 THEN Ptr(ValidationError("insert_final_newline", 0))
  ELSE LET n == Len(c)
           actualEnding == IF n >= 2 /\ c[n - 1] = CR /\ c[n] = LF THEN "crlf"
                           ELSE IF c[n] = CR THEN "cr"
                           ELSE IF c[n] = LF THEN "lf"
                           ELSE ""
           expectedEnding == IF config.EndOfLine = "" THEN "lf" ELSE config.EndOfLine
       IN IF actualEnding = "" THEN Ptr(ValidationError("insert_final_newline", 0))
          ELSE IF actualEnding # expectedEnding
            THEN Ptr(ValidationError("insert_final_newline", 0))
          ELSE Nil

\* the loop over the lines, from line i on: the first line with trailing
\* whitespace, or 0
RECURSIVE FirstTrailingWhitespace(_, _)
FirstTrailingWhitespace(lines, i) ==
  IF i > Len(lines) THEN 0
  ELSE IF i = Len(lines) /\ Len(lines[i]) = 0 THEN 0
  ELSE IF Len(lines[i]) > 0 /\ isWhitespace(lines[i][Len(lines[i])]) THEN i
  ELSE FirstTrailingWhitespace(lines, i + 1)

ValidateTrimTrailingWhitespace(c, config) ==
  IF ~IsTrue(config.TrimTrailingWhitespace) THEN Nil
  ELSE IF Len(c) = 0 THEN Nil
  ELSE LET lineNum == FirstTrailingWhitespace(Split(c, LF), 1)
       IN IF lineNum > 0 THEN Ptr(ValidationError("trim_trailing_whitespace", lineNum))
          ELSE Nil

LineEnding(bytes, line) == [bytes |-> bytes, line |-> line]

\* findLineEndings from byte i on, lineNum being the current line
RECURSIVE findLineEndingsFrom(_, _, _)
findLineEndingsFrom(c, i, lineNum) ==
  IF i > Len(c) THEN <<>>
  ELSE IF c[i] = CR
    THEN IF i + 1 <= Len(c) /\ c[i + 1] = LF
         THEN <<LineEnding(<<CR, LF>>, lineNum)>> \o findLineEndingsFrom(c, i + 2, lineNum + 1)
         ELSE <<LineEnding(<<CR>>, lineNum)>> \o findLineEndingsFrom(c, i + 1, lineNum + 1)
  ELSE IF c[i] = LF
    THEN <<LineEnding(<<LF>>, lineNum)>> \o findLineEndingsFrom(c, i + 1, lineNum + 1)
  ELSE findLineEndingsFrom(c, i + 1, lineNum)

findLineEndings(c) == findLineEndingsFrom(c, 1, 1)

\* the loop over the line endings: the first one that differs, or Nil
RECURSIVE FirstOtherEnding(_, _)
FirstOtherEnding(endings, expectedEnding) ==
  IF Len(endings) = 0 THEN Nil
  ELSE IF Head(endings).bytes # expectedEnding
    THEN Ptr(ValidationError("end_of_line", Head(endings).line))
  ELSE FirstOtherEnding(Tail(endings), expectedEnding)

ValidateEndOfLine(c, config) ==
  IF config.EndOfLine = "" THEN Nil
  ELSE IF Len(c) = 0 THEN Nil
  ELSE IF config.EndOfLine \notin {"lf", "crlf", "cr"} THEN Nil
  ELSE FirstOtherEnding(findLineEndings(c), EndingBytes(config.EndOfLine))

\* the registry of validators, in registry order
GetAllValidators ==
  <<"ValidateInsertFinalNewline", "ValidateTrimTrailingWhitespace", "ValidateEndOfLine">>

\* calling a registered validator
CallValidator(name, c, config) ==
  CASE name = "ValidateInsertFinalNewline" -> ValidateInsertFinalNewline(c, config)
    [] name = "ValidateTrimTrailingWhitespace" -> ValidateTrimTrailingWhitespace(c, config)
    [] name = "ValidateEndOfLine" -> ValidateEndOfLine(c, config)

----------------------------------------------------------------------------
(* ConvertPatternToRegex (pkg/config): the conversion works on the text of *)
(* the pattern, and so does this model of it                               *)

BS == "\\"

\* the characters regexp.QuoteMeta escapes
RegexSpecial == {BS, ".", "+", "*", "?", "(", ")", "|", "[", "]", "{", "}", "^", "$"}

RECURSIVE QuoteMeta(_)
QuoteMeta(s) ==
  IF Len(s) = 0 THEN <<>>
  ELSE (IF Head(s) \in RegexSpecial THEN <<BS, Head(s)>> ELSE <<Head(s)>>)
       \o QuoteMeta(Tail(s))

AnyRun == <<".", "*">>
SegmentRun == <<"[", "^", "/", "]", "*">>

\* ConvertStars with every `*` translated like `**`
ConvertStarsAllAny(q) ==
  ReplaceAll(ReplaceAll(q, <<BS, "*", BS, "*">>, AnyRun), <<BS, "*">>, AnyRun)

\* `**` first, then the special case of the bare `*`, then every other `*`
ConvertStars(q) ==
  LET q1 == ReplaceAll(q, <<BS, "*", BS, "*">>, AnyRun)
  IN IF q1 = <<BS, "*">> THEN AnyRun
     ELSE ReplaceAll(q1, <<BS, "*">>, SegmentRun)

\* `?`, and the character classes [abc] and [!abc]
ConvertClasses(q) ==
  LET q1 == ReplaceAll(q, <<BS, "?">>, <<".">>)
      q2 == ReplaceAll(q1, <<BS, "[", "!">>, <<"[", "^">>)
      q3 == ReplaceAll(q2, <<BS, "[">>, <<"[">>)
  IN ReplaceAll(q3, <<BS, "]">>, <<"]">>)

\* braceRegex \\{([^}]+)\\} matched at the start of s: the index of the
\* closing brace, or 0 when there is no match at the start
BraceMatchEnd(s) ==
  IF ~HasPrefix(s, <<BS, "{">>) THEN 0
  ELSE IF \A k \in 3..Len(s) : s[k] # "}" THEN 0
  ELSE LET k == CHOOSE k \in 3..Len(s) : s[k] = "}" /\ \A j \in 3..(k - 1) : s[j] # "}"
       IN IF k >= 5 /\ s[k - 1] = BS THEN k ELSE 0

\* the replacement function of ReplaceAllStringFunc: every alternative is
\* escaped with regexp.QuoteMeta
BraceAlternation(match) ==
  LET inner == SubSeq(match, 3, Len(match) - 2)
      parts == Split(inner, ",")
      quoted == [i \in 1..Len(parts) |-> QuoteMeta(parts[i])]
  IN <<"(">> \o Join(quoted, <<"|">>) \o <<")">>

\* braceRegex.ReplaceAllStringFunc
RECURSIVE ExpandBraces(_)
ExpandBraces(s) ==
  IF Len(s) = 0 THEN s
  ELSE LET k == BraceMatchEnd(s)
       IN IF k > 0 THEN BraceAlternation(Take(s, k)) \o ExpandBraces(Drop(s, k))
          ELSE <<Head(s)>> \o ExpandBraces(Tail(s))

ConvertPatternToRegex(p) ==
  <<"^">> \o ExpandBraces(ConvertClasses(ConvertStars(QuoteMeta(p)))) \o <<"$">>

----------------------------------------------------------------------------
(* regexp.MatchString on the expressions ConvertPatternToRegex produces:   *)
(* literals, escapes, `.`, bracket classes without ranges, groups of       *)
(* alternatives, the star, and the anchors ^ at the start and $ at the end *)

\* index of the `]` that closes the class whose members start at k, or 0
RECURSIVE ClassEnd(_, _, _)
ClassEnd(re, k, first) ==
  IF k > Len(re) THEN 0
  ELSE IF re[k] = "]" /\ ~first THEN k
  ELSE IF re[k] = BS THEN ClassEnd(re, k + 2, FALSE)
  ELSE ClassEnd(re, k + 1, FALSE)

\* the members of a class body
RECURSIVE ClassMembers(_)
ClassMembers(body) ==
  IF Len(body) = 0 THEN {}
  ELSE IF Head(body) = BS /\ Len(body) >= 2
       THEN {body[2]} \cup ClassMembers(Drop(body, 2))
  ELSE {Head(body)} \cup ClassMembers(Tail(body))

\* index of the unescaped `)` that closes the group opened before k, or 0
RECURSIVE GroupEnd(_, _)
GroupEnd(re, k) ==
  IF k > Len(re) THEN 0
  ELSE IF re[k] = ")" THEN k
  ELSE IF re[k] = BS THEN GroupEnd(re, k + 2)
  ELSE GroupEnd(re, k + 1)

\* the alternatives of a group body, split at the unescaped `|`
RECURSIVE Alternatives(_, _)
Alternatives(body, acc) ==
  IF Len(body) = 0 THEN {acc}
  ELSE IF Head(body) = BS /\ Len(body) >= 2
       THEN Alternatives(Drop(body, 2), acc \o Take(body, 2))
  ELSE IF Head(body) = "|" THEN {acc} \cup Alternatives(Tail(body), <<>>)
  ELSE Alternatives(Tail(body), Append(acc, Head(body)))

\* the atom that starts at re[i]
AtomAt(re, i) ==
  IF re[i] = BS /\ i < Len(re)
    THEN [kind |-> "lit", len |-> 2, set |-> {re[i + 1]}, neg |-> FALSE, alts |-> {}]
  ELSE IF re[i] = "."
    THEN [kind |-> "any", len |-> 1, set |-> {LF}, neg |-> TRUE, alts |-> {}]
  ELSE IF re[i] = "["
    THEN LET neg == i < Len(re) /\ re[i + 1] = "^"
             from == IF neg THEN i + 2 ELSE i + 1
             e == ClassEnd(re, from, TRUE)
         IN IF e = 0
            THEN [kind |-> "error", len |-> 1, set |-> {}, neg |-> FALSE, alts |-> {}]
            ELSE [kind |-> "class", len |-> e - i + 1,
                  set |-> ClassMembers(SubSeq(re, from, e - 1)), neg |-> neg,
                  alts |-> {}]
  ELSE IF re[i] = "("
    THEN LET e == GroupEnd(re, i + 1)
         IN IF e = 0
            THEN [kind |-> "error", len |-> 1, set |-> {}, neg |-> FALSE, alts |-> {}]
            ELSE [kind |-> "group", len |-> e - i + 1, set |-> {}, neg |-> FALSE,
                  alts |-> Alternatives(SubSeq(re, i + 1, e - 1), <<>>)]
  ELSE [kind |-> "lit", len |-> 1, set |-> {re[i]}, neg |-> FALSE, alts |-> {}]

AtomAccepts(a, c) == IF a.neg THEN c \notin a.set ELSE c \in a.set

\* regexp.Compile succeeds: every class and group is closed
RECURSIVE CompileOK(_, _)
CompileOK(re, i) ==
  IF i > Len(re) THEN TRUE
  ELSE LET a == AtomAt(re, i)
       IN a.kind # "error" /\ CompileOK(re, i + a.len)

\* re from position i on matches s from position j on, up to the end of s
RECURSIVE MatchHere(_, _, _, _)
MatchHere(re, i, s, j) ==
  IF i > Len(re) THEN TRUE
  ELSE IF i = Len(re) /\ re[i] = "$" THEN j > Len(s)
  ELSE LET a == AtomAt(re, i)
           nxt == i + a.len
           starred == nxt <= Len(re) /\ re[nxt] = "*"
       IN IF a.kind = "group"
            THEN \E alt \in a.alts : MatchHere(alt \o Drop(re, nxt - 1), 1, s, j)
          ELSE IF starred
            THEN \/ MatchHere(re, nxt + 1, s, j)
                 \/ /\ j <= Len(s)
                    /\ AtomAccepts(a, s[j])
                    /\ MatchHere(re, i, s, j + 1)
          ELSE /\ j <= Len(s)
               /\ AtomAccepts(a, s[j])
               /\ MatchHere(re, nxt, s, j + 1)

\* regexp.MatchString(re, s) for an expression that starts with ^
MatchString(re, s) == MatchHere(re, 2, s, 1)

----------------------------------------------------------------------------
(* applyProperties and ResolveConfigForFile (pkg/config).  A raw property  *)
(* value is the sequence of its characters.                                *)

Digits == <<"0", "1", "2", "3", "4", "5", "6", "7", "8", "9">>
IsDigit(c) == \E d \in DOMAIN Digits : Digits[d] = c
DigitValue(c) == (CHOOSE d \in DOMAIN Digits : Digits[d] = c) - 1

RECURSIVE DecimalValue(_)
DecimalValue(ds) ==
  IF Len(ds) = 0 THEN 0
  ELSE DecimalValue(Take(ds, Len(ds) - 1)) * 10 + DigitValue(ds[Len(ds)])

\* strconv.Atoi: an optional sign, then one or more decimal digits
Atoi(v) ==
  LET signed == Len(v) > 0 /\ Head(v) \in {"+", "-"}
      ds == IF signed THEN Tail(v) ELSE v
      ok == Len(ds) > 0 /\ \A i \in DOMAIN ds : IsDigit(ds[i])
  IN [ok |-> ok,
      val |-> IF ~ok THEN 0
              ELSE IF signed /\ Head(v) = "-" THEN 0 - DecimalValue(ds)
              ELSE DecimalValue(ds)]

BoolTrueTexts ==
  {<<"1">>, <<"t">>, <<"T">>, <<"T", "R", "U", "E">>, <<"t", "r", "u", "e">>,
   <<"T", "r", "u", "e">>}
BoolFalseTexts ==
  {<<"0">>, <<"f">>, <<"F">>, <<"F", "A", "L", "S", "E">>,
   <<"f", "a", "l", "s", "e">>, <<"F", "a", "l", "s", "e">>}

\* strconv.ParseBool
ParseBool(v) == [ok |-> v \in BoolTrueTexts \cup BoolFalseTexts, val |-> v \in BoolTrueTexts]

VTab == <<"t", "a", "b">>
VSpace == <<"s", "p", "a", "c", "e">>
VLf == <<"l", "f">>
VCrlf == <<"c", "r", "l", "f">>
VCr == <<"c", "r">>
VOff == <<"o", "f", "f">>
VTrue == <<"t", "r", "u", "e">>
VFalse == <<"f", "a", "l", "s", "e">>
VTwo == <<"2">>

\* applyProperties with `max_line_length = off` leaving the limit as it was
applyPropertiesOffKeeps(config, properties) ==
  LET has(k) == k \in DOMAIN properties
      val(k) == properties[k]
  IN [config EXCEPT
        !.IndentStyle =
          IF has("indent_style") /\ val("indent_style") = VTab THEN "tab"
          ELSE IF has("indent_style") /\ val("indent_style") = VSpace THEN "space"
          ELSE @,
        !.IndentSize =
          IF ~has("indent_size") THEN @
          ELSE IF val("indent_size") = VTab THEN Nil
          ELSE IF Atoi(val("indent_size")).ok /\ Atoi(val("indent_size")).val > 0
            THEN Ptr(Atoi(val("indent_size")).val)
          ELSE @,
        !.TabWidth =
          IF has("tab_width") /\ Atoi(val("tab_width")).ok
             /\ Atoi(val("tab_width")).val > 0
          THEN Ptr(Atoi(val("tab_width")).val) ELSE @,
        !.EndOfLine =
          IF has("end_of_line") /\ val("end_of_line") = VLf THEN "lf"
          ELSE IF has("end_of_line") /\ val("end_of_line") = VCrlf THEN "crlf"
          ELSE IF has("end_of_line") /\ val("end_of_line") = VCr THEN "cr"
          ELSE @,
        !.Charset = IF has("charset") THEN val("charset") ELSE @,
        !.TrimTrailingWhitespace =
          IF has("trim_trailing_whitespace")
             /\ ParseBool(val("trim_trailing_whitespace")).ok
          THEN Ptr(ParseBool(val("trim_trailing_whitespace")).val) ELSE @,
        !.InsertFinalNewline =
          IF has("insert_final_newline") /\ ParseBool(val("insert_final_newline")).ok
          THEN Ptr(ParseBool(val("insert_final_newline")).val) ELSE @,
        !.MaxLineLength =
          IF ~has("max_line_length") THEN @
          ELSE IF val("max_line_length") = VOff THEN @
          ELSE IF Atoi(val("max_line_length")).ok /\ Atoi(val("max_line_length")).val > 0
            THEN Ptr(Atoi(val("max_line_length")).val)
          ELSE @]

\* the keys of a section are unique, so the order in which the loop over the
\* map visits them does not matter
applyProperties(config, properties) ==
  LET has(k) == k \in DOMAIN properties
      val(k) == properties[k]
  IN [config EXCEPT
        !.IndentStyle =
          IF has("indent_style") /\ val("indent_style") = VTab THEN "tab"
          ELSE IF has("indent_style") /\ val("indent_style") = VSpace THEN "space"
          ELSE @,
        !.IndentSize =
          IF ~has("indent_size") THEN @
          ELSE IF val("indent_size") = VTab THEN Nil
          ELSE IF Atoi(val("indent_size")).ok /\ Atoi(val("indent_size")).val > 0
            THEN Ptr(Atoi(val("indent_size")).val)
          ELSE @,
        !.TabWidth =
          IF has("tab_width") /\ Atoi(val("tab_width")).ok
             /\ Atoi(val("tab_width")).val > 0
          THEN Ptr(Atoi(val("tab_width")).val) ELSE @,
        !.EndOfLine =
          IF has("end_of_line") /\ val("end_of_line") = VLf THEN "lf"
          ELSE IF has("end_of_line") /\ val("end_of_line") = VCrlf THEN "crlf"
          ELSE IF has("end_of_line") /\ val("end_of_line") = VCr THEN "cr"
          ELSE @,
        !.Charset = IF has("charset") THEN val("charset") ELSE @,
        !.TrimTrailingWhitespace =
          IF has("trim_trailing_whitespace")
             /\ ParseBool(val("trim_trailing_whitespace")).ok
          THEN Ptr(ParseBool(val("trim_trailing_whitespace")).val) ELSE @,
        !.InsertFinalNewline =
          IF has("insert_final_newline") /\ ParseBool(val("insert_final_newline")).ok
          THEN Ptr(ParseBool(val("insert_final_newline")).val) ELSE @,
        !.MaxLineLength =
          IF ~has("max_line_length") THEN @
          ELSE IF val("max_line_length") = VOff THEN Nil
          ELSE IF Atoi(val("max_line_length")).ok /\ Atoi(val("max_line_length")).val > 0
            THEN Ptr(Atoi(val("max_line_length")).val)
          ELSE @]

\* matchesPattern(filePath, pattern, configPath), relPath being filePath
\* relative to the directory of configPath
matchesPattern(relPath, pat) ==
  LET re == ConvertPatternToRegex(pat)
  IN IF ~CompileOK(re, 1) THEN [err |-> TRUE, matches |-> FALSE]
     ELSE [err |-> FALSE, matches |-> MatchString(re, relPath)]

\* the loop over the sections of one document
RECURSIVE ApplySections(_, _, _)
ApplySections(acc, sections, relPath) ==
  IF acc.err \/ Len(sections) = 0 THEN acc
  ELSE LET m == matchesPattern(relPath, Head(sections).Pattern)
       IN IF m.err THEN [err |-> TRUE, config |-> acc.config]
          ELSE ApplySections(
                 [err |-> FALSE,
                  config |-> IF m.matches
                             THEN applyProperties(acc.config, Head(sections).Properties)
                             ELSE acc.config],
                 Tail(sections), relPath)

----------------------------------------------------------------------------
(* fixSingleFile, one run after the other on the same file *)

FixIdle ==
  /\ disk = <<>> /\ cfg = EmptyResolvedConfig /\ content = <<>> /\ idx = 0
  /\ modified = FALSE /\ applied = <<>> /\ changes = <<>> /\ run = 0 /\ pc = "idle"

PatIdle ==
  /\ pattern = <<>> /\ path = <<>> /\ regex = <<>> /\ matched = FALSE /\ ppc = "idle"

CfgIdle ==
  /\ fs = <<>> /\ custom = 0 /\ dir = 0 /\ configs = <<>>
  /\ resolved = EmptyResolvedConfig /\ cpc = "idle"

IgnIdle ==
  /\ excludePatterns = <<>> /\ normalizedPath = <<>> /\ ignored = FALSE /\ ipc = "idle"

RuleIdle ==
  /\ input = <<>> /\ ruleCfg = EmptyResolvedConfig /\ called = "" /\ verdict = Nil
  /\ output = Fixed(<<>>, FALSE) /\ rpc = "idle"

RunIdle ==
  /\ target = "" /\ failure = "none" /\ fixMode = FALSE /\ files = <<>> /\ fdisk = <<>>
  /\ jobs = <<>> /\ jobsClosed = FALSE /\ nextJob = 0 /\ results = <<>>
  /\ resultsClosed = FALSE /\ workers = <<>> /\ collected = <<>> /\ mainpc = "idle"
  /\ ret = "" /\ total = 0 /\ handled = <<>> /\ customJob = 0

WalkIdle ==
  /\ tree = <<>> /\ recursive = FALSE /\ walked = <<>> /\ wpc = "idle"

Init ==
  /\ disk \in SeqsUpTo(Byte, MaxLen)
  /\ cfg \in RuleConfigs
  /\ content = <<>>
  /\ idx = 0
  /\ modified = FALSE
  /\ applied = <<>>
  /\ changes = <<>>
  /\ run = 1
  /\ pc = "read"
  /\ PatIdle
  /\ CfgIdle
  /\ IgnIdle
  /\ RuleIdle
  /\ RunIdle
  /\ WalkIdle

\* os.ReadFile, and the start of the loop over the fixers
ReadFile ==
  /\ pc = "read"
  /\ content' = disk
  /\ idx' = 1
  /\ modified' = FALSE
  /\ applied' = <<>>
  /\ changes' = <<>>
  /\ pc' = "fix"
  /\ UNCHANGED <<disk, cfg, run>>

\* one iteration of the loop over the fixers
ApplyFixer ==
  /\ pc = "fix"
  /\ idx <= Len(GetAllFixers)
  /\ LET r == CallFixer(GetAllFixers[idx], content, cfg)
     IN /\ content' = IF r.changed THEN r.content ELSE content
        /\ modified' = (modified \/ r.changed)
        /\ applied' = Append(applied, GetAllFixers[idx])
        /\ changes' = Append(changes, r.changed)
  /\ idx' = idx + 1
  /\ UNCHANGED <<disk, cfg, run, pc>>

\* after the loop: os.WriteFile when modified, and return
WriteBack ==
  /\ pc = "fix"
  /\ idx > Len(GetAllFixers)
  /\ disk' = IF modified THEN content ELSE disk
  /\ pc' = "done"
  /\ UNCHANGED <<cfg, content, idx, modified, applied, changes, run>>

\* the tool is run again on the same file under the same configuration
RunAgain ==
  /\ pc = "done"
  /\ run < MaxRuns
  /\ run' = run + 1
  /\ pc' = "read"
  /\ UNCHANGED <<disk, cfg, content, idx, modified, applied, changes>>

Next ==
  \/ /\ ReadFile /\ UNCHANGED <<patVars, cfgVars, ignVars, ruleVars, runVars, walkVars>>
  \/ /\ ApplyFixer /\ UNCHANGED <<patVars, cfgVars, ignVars, ruleVars, runVars, walkVars>>
  \/ /\ WriteBack /\ UNCHANGED <<patVars, cfgVars, ignVars, ruleVars, runVars, walkVars>>
  \/ /\ RunAgain /\ UNCHANGED <<patVars, cfgVars, ignVars, ruleVars, runVars, walkVars>>

Spec == Init /\ [][Next]_vars

----------------------------------------------------------------------------
(* One call of a registered validator or fixer on a content *)

\* "a\r\nb\rc\n": a CRLF line, a CR line and an LF line
ExampleMixed == <<"a", CR, LF, "b", CR, "c", LF>>

RuleInit ==
  /\ input \in SeqsUpTo(Byte, MaxLen) \cup {ExampleMixed}
  /\ ruleCfg \in RuleConfigs
  /\ called = ""
  /\ verdict = Nil
  /\ output = Fixed(<<>>, FALSE)
  /\ rpc = "call"
  /\ FixIdle
  /\ PatIdle
  /\ CfgIdle
  /\ IgnIdle
  /\ RunIdle
  /\ WalkIdle

\* validator(filePath, content, cfg)
Validate(name) ==
  /\ rpc = "call"
  /\ called' = name
  /\ verdict' = CallValidator(name, input, ruleCfg)
  /\ rpc' = "returned"
  /\ UNCHANGED <<input, ruleCfg, output>>

\* fixer(filePath, content, resolvedConfig)
Fix(name) ==
  /\ rpc = "call"
  /\ called' = name
  /\ output' = CallFixer(name, input, ruleCfg)
  /\ rpc' = "returned"
  /\ UNCHANGED <<input, ruleCfg, verdict>>

RuleNext ==
  \/ /\ Validate("ValidateInsertFinalNewline") /\ UNCHANGED <<fixVars, patVars, cfgVars, ignVars, runVars, walkVars>>
  \/ /\ Validate("ValidateTrimTrailingWhitespace") /\ UNCHANGED <<fixVars, patVars, cfgVars, ignVars, runVars, walkVars>>
  \/ /\ Validate("ValidateEndOfLine") /\ UNCHANGED <<fixVars, patVars, cfgVars, ignVars, runVars, walkVars>>
  \/ /\ Fix("FixInsertFinalNewline") /\ UNCHANGED <<fixVars, patVars, cfgVars, ignVars, runVars, walkVars>>
  \/ /\ Fix("FixTrimTrailingWhitespace") /\ UNCHANGED <<fixVars, patVars, cfgVars, ignVars, runVars, walkVars>>
  \/ /\ Fix("FixEndOfLine") /\ UNCHANGED <<fixVars, patVars, cfgVars, ignVars, runVars, walkVars>>

SpecRules == RuleInit /\ [][RuleNext]_vars

----------------------------------------------------------------------------
(* matchesPattern: the conversion, then regexp.MatchString *)

\* longest generated pattern, and longest generated path, in characters
MaxPatLen == 3
MaxPathLen == 3

\* the characters generated patterns and generated paths are made of
PatChar == {"*", "a", ".", "/"}
PathChar == {"a", ".", "/", LF}

PatStar == <<"*">>
PatStarGo == <<"*", ".", "g", "o">>
PatStarStar == <<"*", "*">>
PatSrcStarStar == <<"s", "r", "c", "/", "*", "*">>
PatStarJsTs == <<"*", ".", "{", "j", "s", ",", "t", "s", "}">>
PatGlobOrLib == <<"{", "*", ".", "j", "s", ",", "l", "i", "b", ".", "t", "s", "}">>
PatAOrB == <<"{", "a", ",", "b", "}">>
PatQuestion == <<"a", "?", "b">>
PatClass == <<"[", "a", "b", "]">>
PatNotClass == <<"[", "!", "a", "]">>
PatOpenBrace == <<"{", "a">>
PatOpenBracket == <<"[", "a">>

NamedPatterns ==
  {PatStar, PatStarGo, PatStarStar, PatSrcStarStar, PatStarJsTs, PatGlobOrLib,
   PatAOrB, PatQuestion, PatClass, PatNotClass, PatOpenBrace, PatOpenBracket}

PathMainGo == <<"m", "a", "i", "n", ".", "g", "o">>
PathSubMainGo == <<"s", "u", "b", "/", "m", "a", "i", "n", ".", "g", "o">>
PathMainGoBak == <<"m", "a", "i", "n", ".", "g", "o", ".", "b", "a", "k">>
PathSrcABGo == <<"s", "r", "c", "/", "a", "/", "b", ".", "g", "o">>
PathXJs == <<"x", ".", "j", "s">>
PathXTs == <<"x", ".", "t", "s">>
PathLibTs == <<"l", "i", "b", ".", "t", "s">>

NamedPaths ==
  {PathMainGo, PathSubMainGo, PathMainGoBak, PathSrcABGo, PathXJs, PathXTs, PathLibTs}

Patterns == NamedPatterns \cup SeqsUpTo(PatChar, MaxPatLen)
\* filepath.Rel returns a cleaned relative path: not empty, no separator at
\* either end and no empty element
IsRel(p) ==
  /\ Len(p) > 0
  /\ p[1] # "/"
  /\ p[Len(p)] # "/"
  /\ \A i \in 1..(Len(p) - 1) : ~(p[i] = "/" /\ p[i + 1] = "/")

Paths == NamedPaths \cup {p \in SeqsUpTo(PathChar, MaxPathLen) : IsRel(p)}

PatInit ==
  /\ pattern \in Patterns
  /\ path \in Paths
  /\ regex = <<>>
  /\ matched = FALSE
  /\ ppc = "convert"
  /\ FixIdle
  /\ CfgIdle
  /\ IgnIdle
  /\ RuleIdle
  /\ RunIdle
  /\ WalkIdle

\* regexPattern, err := ConvertPatternToRegex(pattern)
Convert ==
  /\ ppc = "convert"
  /\ regex' = ConvertPatternToRegex(pattern)
  /\ ppc' = "match"
  /\ UNCHANGED <<pattern, path, matched>>

\* regexp.MatchString(regexPattern, relPath) returns the match
Match ==
  /\ ppc = "match"
  /\ CompileOK(regex, 1)
  /\ matched' = MatchString(regex, path)
  /\ ppc' = "done"
  /\ UNCHANGED <<pattern, path, regex>>

\* regexp.MatchString(regexPattern, relPath) returns a compilation error
MatchError ==
  /\ ppc = "match"
  /\ ~CompileOK(regex, 1)
  /\ ppc' = "error"
  /\ UNCHANGED <<pattern, path, regex, matched>>

PatNext ==
  \/ /\ Convert /\ UNCHANGED <<fixVars, cfgVars, ignVars, ruleVars, runVars, walkVars>>
  \/ /\ Match /\ UNCHANGED <<fixVars, cfgVars, ignVars, ruleVars, runVars, walkVars>>
  \/ /\ MatchError /\ UNCHANGED <<fixVars, cfgVars, ignVars, ruleVars, runVars, walkVars>>

SpecPattern == PatInit /\ [][PatNext]_vars

----------------------------------------------------------------------------
(* The directory chain of the target file, FindEditorConfigsWithCustomConfig *)
(* and ResolveConfigForFile                                                  *)

\* number of directories from the filesystem root (level 1) down to the
\* directory of the target file (level Depth)
Depth == 2

\* the target file is d/.../d/m.g below the filesystem root
TargetName == <<"m", ".", "g">>
PatStarG == <<"*", ".", "g">>

Levels == 1..Depth

RECURSIVE Below(_)
Below(n) == IF n = 0 THEN TargetName ELSE <<"d", "/">> \o Below(n - 1)

\* filepath.ToSlash(filepath.Rel(configDir, filePath)) for a configuration
\* file in the directory at `level`
RelPath(level) == Below(Depth - level)

NoDoc == [Exists |-> FALSE, Root |-> FALSE, Sections |-> <<>>]

\* the property maps of the sections: one sets end_of_line, one sets
\* indent_size, one sets both (end_of_line to the other style)
PropertyMaps ==
  {[k \in {"end_of_line"} |-> VLf],
   [k \in {"indent_size"} |-> VTwo],
   [k \in {"end_of_line", "indent_size"} |-> IF k = "end_of_line" THEN VCrlf ELSE VTwo]}

SectionPool == [Pattern : {PatStar, PatStarG}, Properties : PropertyMaps]

\* a configuration file holds at most two sections in the directory of the
\* target file and at most one in the directories above it
SectionLists(level) ==
  {<<>>} \cup {<<x>> : x \in SectionPool}
  \cup (IF level = Depth THEN {<<x, y>> : x \in SectionPool, y \in SectionPool} ELSE {})

DocsAt(level) ==
  {NoDoc} \cup [Exists : {TRUE}, Root : BOOLEAN, Sections : SectionLists(level)]

\* the directory chains: what each directory from level 1 to n holds
RECURSIVE ChainsUpTo(_)
ChainsUpTo(n) ==
  IF n = 0 THEN {<<>>}
  ELSE {Append(f, d) : f \in ChainsUpTo(n - 1), d \in DocsAt(n)}

\* ParseEditorConfig of the configuration file in the directory at `level`
\* (FilePath is kept as the level of its directory)
ParseEditorConfig(level) ==
  [Root |-> fs[level].Root, Sections |-> fs[level].Sections, FilePath |-> level]

\* ResolveConfigForFile with the documents traversed nearest first
RECURSIVE ResolveNearestFirst(_, _)
ResolveNearestFirst(acc, docs) ==
  IF acc.err \/ Len(docs) = 0 THEN acc
  ELSE ResolveNearestFirst(
         ApplySections(acc, docs[Len(docs)].Sections, RelPath(docs[Len(docs)].FilePath)),
         Take(docs, Len(docs) - 1))

\* the loop over the documents
RECURSIVE ResolveFrom(_, _)
ResolveFrom(acc, docs) ==
  IF acc.err \/ Len(docs) = 0 THEN acc
  ELSE ResolveFrom(ApplySections(acc, Head(docs).Sections, RelPath(Head(docs).FilePath)),
                   Tail(docs))

ResolveConfigForFile(docs) ==
  ResolveFrom([err |-> FALSE, config |-> EmptyResolvedConfig], docs)

\* the discovery loop breaks after a document whose Root is set
RootNeverStops(doc) == FALSE

StopsAtRoot(doc) == doc.Root

\* the custom branch followed by the document of the target's directory
CustomThenNearest(c) ==
  IF fs[Depth].Exists /\ c # Depth
  THEN <<ParseEditorConfig(c), ParseEditorConfig(Depth)>>
  ELSE <<ParseEditorConfig(c)>>

\* the custom branch: return []*EditorConfig{config}
CustomConfigOnly(c) == <<ParseEditorConfig(c)>>

CfgInit ==
  /\ fs \in ChainsUpTo(Depth)
  /\ custom \in 0..Depth
  /\ dir = 0
  /\ configs = <<>>
  /\ resolved = EmptyResolvedConfig
  /\ cpc = "find"
  /\ FixIdle
  /\ PatIdle
  /\ IgnIdle
  /\ RuleIdle
  /\ RunIdle
  /\ WalkIdle

\* customConfigPath names a configuration file that parses
FindCustom ==
  /\ cpc = "find"
  /\ custom # 0
  /\ fs[custom].Exists
  /\ configs' = CustomConfigOnly(custom)
  /\ cpc' = "resolve"
  /\ UNCHANGED <<fs, custom, dir, resolved>>

\* customConfigPath names a file that cannot be opened
FindCustomFails ==
  /\ cpc = "find"
  /\ custom # 0
  /\ ~fs[custom].Exists
  /\ cpc' = "error"
  /\ UNCHANGED <<fs, custom, dir, configs, resolved>>

\* no custom path: the search starts in the directory of the target
FindHierarchy ==
  /\ cpc = "find"
  /\ custom = 0
  /\ dir' = Depth
  /\ configs' = <<>>
  /\ cpc' = "climb"
  /\ UNCHANGED <<fs, custom, resolved>>

\* one iteration of the discovery loop
Climb ==
  /\ cpc = "climb"
  /\ LET found == fs[dir].Exists
         config == ParseEditorConfig(dir)
     IN /\ configs' = IF found THEN <<config>> \o configs ELSE configs
        /\ IF found /\ StopsAtRoot(config)
           THEN cpc' = "resolve" /\ dir' = dir
           ELSE IF dir = 1
             THEN cpc' = "resolve" /\ dir' = dir
             ELSE cpc' = "climb" /\ dir' = dir - 1
  /\ UNCHANGED <<fs, custom, resolved>>

\* the callers' check: no document found
NoConfigFound ==
  /\ cpc = "resolve"
  /\ Len(configs) = 0
  /\ cpc' = "error"
  /\ UNCHANGED <<fs, custom, dir, configs, resolved>>

\* config.ResolveConfigForFile(absPath, configs)
Resolve ==
  /\ cpc = "resolve"
  /\ Len(configs) > 0
  /\ LET r == ResolveConfigForFile(configs)
     IN /\ resolved' = r.config
        /\ cpc' = IF r.err THEN "error" ELSE "done"
  /\ UNCHANGED <<fs, custom, dir, configs>>

CfgNext ==
  \/ /\ FindCustom /\ UNCHANGED <<fixVars, patVars, ignVars, ruleVars, runVars, walkVars>>
  \/ /\ FindCustomFails /\ UNCHANGED <<fixVars, patVars, ignVars, ruleVars, runVars, walkVars>>
  \/ /\ FindHierarchy /\ UNCHANGED <<fixVars, patVars, ignVars, ruleVars, runVars, walkVars>>
  \/ /\ Climb /\ UNCHANGED <<fixVars, patVars, ignVars, ruleVars, runVars, walkVars>>
  \/ /\ NoConfigFound /\ UNCHANGED <<fixVars, patVars, ignVars, ruleVars, runVars, walkVars>>
  \/ /\ Resolve /\ UNCHANGED <<fixVars, patVars, ignVars, ruleVars, runVars, walkVars>>

SpecConfig == CfgInit /\ [][CfgNext]_vars

----------------------------------------------------------------------------
(* shouldIgnore, and resolution when a pattern does not compile *)

\* longest exclusion list
MaxExcludes == 2

PatDirStar == <<"d", "/", "*">>

\* one exclusion pattern against normalizedPath alone
PatternIgnoresFullPath(pat, p) ==
  LET regexPattern == ConvertPatternToRegex(pat)
  IN CompileOK(regexPattern, 1) /\ MatchString(regexPattern, p)

\* one exclusion pattern against normalizedPath and against every suffix
\* of it that starts at a path element
PatternIgnores(pat, p) ==
  LET regexPattern == ConvertPatternToRegex(pat)
      pathParts == Split(p, "/")
  IN /\ CompileOK(regexPattern, 1)
     /\ \/ MatchString(regexPattern, p)
        \/ \E i \in 1..Len(pathParts) :
             MatchString(regexPattern,
                         Join(SubSeq(pathParts, i, Len(pathParts)), <<"/">>))

\* the loop over Config.ExcludePatterns
RECURSIVE shouldIgnore(_, _)
shouldIgnore(patterns, p) ==
  IF Len(patterns) = 0 THEN FALSE
  ELSE IF PatternIgnores(Head(patterns), p) THEN TRUE
  ELSE shouldIgnore(Tail(patterns), p)

\* section headers and exclusion patterns, malformed ones among them
HeaderPool == {PatStar, PatOpenBracket, PatOpenBrace}
ExcludePool == {PatStarG, PatDirStar, PatOpenBracket, PatOpenBrace}

SkipSectionPool ==
  [Pattern : HeaderPool,
   Properties : {[k \in {"end_of_line"} |-> VLf], [k \in {"indent_size"} |-> VTwo]}]

\* what discovery returned: the document of the target's directory, alone
\* or after the document of the parent directory
SkipDocLists ==
  LET near == {[Root |-> FALSE, Sections |-> ss, FilePath |-> Depth] :
                 ss \in {<<>>} \cup {<<x>> : x \in SkipSectionPool}
                        \cup {<<x, y>> : x \in SkipSectionPool, y \in SkipSectionPool}}
      far == {[Root |-> FALSE, Sections |-> <<x>>, FilePath |-> Depth - 1] :
                 x \in SkipSectionPool}
  IN {<<n>> : n \in near} \cup {<<f, n>> : f \in far, n \in near}

SkipInit ==
  /\ configs \in SkipDocLists
  /\ fs = <<>> /\ custom = 0 /\ dir = 0
  /\ resolved = EmptyResolvedConfig
  /\ cpc = "resolve"
  /\ excludePatterns \in SeqsUpTo(ExcludePool, MaxExcludes)
  /\ normalizedPath \in {Below(1), Below(0)}
  /\ ignored = FALSE
  /\ ipc = "check"
  /\ FixIdle
  /\ PatIdle
  /\ RuleIdle
  /\ RunIdle
  /\ WalkIdle

\* v.shouldIgnore(path)
ShouldIgnore ==
  /\ ipc = "check"
  /\ ignored' = shouldIgnore(excludePatterns, normalizedPath)
  /\ ipc' = "done"
  /\ UNCHANGED <<excludePatterns, normalizedPath>>

SkipNext ==
  \/ /\ Resolve /\ UNCHANGED <<fixVars, patVars, ignVars, ruleVars, runVars, walkVars>>
  \/ /\ ShouldIgnore /\ UNCHANGED <<fixVars, patVars, cfgVars, ruleVars, runVars, walkVars>>

SpecSkip == SkipInit /\ [][SkipNext]_vars

\* ResolveConfigForFile alone, on the document of the target's directory,
\* by itself or after the document of the parent directory; the sections
\* assign indent_size, tab_width and max_line_length
VEighty == <<"8", "0">>
VFour == <<"4">>

CascadePropertyMaps ==
  {[k \in {"indent_size"} |-> VTwo],
   [k \in {"indent_size"} |-> VTab],
   [k \in {"tab_width"} |-> VFour],
   [k \in {"max_line_length"} |-> VEighty],
   [k \in {"max_line_length"} |-> VOff]}

CascadeSectionPool == [Pattern : {PatStar, PatStarGo}, Properties : CascadePropertyMaps]

CascadeSectionLists ==
  {<<>>} \cup {<<x>> : x \in CascadeSectionPool}
         \cup {<<x, y>> : x \in CascadeSectionPool, y \in CascadeSectionPool}

CascadeDocLists ==
  LET near == {[Root |-> FALSE, Sections |-> ss, FilePath |-> Depth] :
                 ss \in CascadeSectionLists}
      far == {[Root |-> FALSE, Sections |-> ss, FilePath |-> Depth - 1] :
                 ss \in CascadeSectionLists}
  IN {<<n>> : n \in near} \cup {<<f, n>> : f \in far, n \in near}

CascadeInit ==
  /\ configs \in CascadeDocLists
  /\ fs = <<>> /\ custom = 0 /\ dir = 0
  /\ resolved = EmptyResolvedConfig
  /\ cpc = "resolve"
  /\ FixIdle
  /\ PatIdle
  /\ IgnIdle
  /\ RuleIdle
  /\ RunIdle
  /\ WalkIdle

CascadeNext ==
  \/ /\ Resolve /\ UNCHANGED <<fixVars, patVars, ignVars, ruleVars, runVars, walkVars>>

SpecCascade == CascadeInit /\ [][CascadeNext]_vars

\* shouldIgnore alone, on relative and absolute paths of every depth
IgnorePaths ==
  {Below(n) : n \in 0..Depth} \cup {<<"/">> \o Below(n) : n \in 0..Depth}

IgnoreInit ==
  /\ excludePatterns \in SeqsUpTo(ExcludePool, MaxExcludes)
  /\ normalizedPath \in IgnorePaths
  /\ ignored = FALSE
  /\ ipc = "check"
  /\ FixIdle
  /\ PatIdle
  /\ CfgIdle
  /\ RuleIdle
  /\ RunIdle
  /\ WalkIdle

IgnoreNext ==
  \/ /\ ShouldIgnore /\ UNCHANGED <<fixVars, patVars, cfgVars, ruleVars, runVars, walkVars>>

SpecIgnore == IgnoreInit /\ [][IgnoreNext]_vars

----------------------------------------------------------------------------
(* collectFiles: filepath.Walk over the target directory.  The directory   *)
(* holds entries by name; an entry is a file, or a directory holding files *)

\* the target directory, and the names of entries in lexical order
RootPath == <<"t">>
NameHidden == <<".", "g">>
NameA == <<"a">>
NameD == <<"d">>
EditorConfigName == <<".", "e", "d", "i", "t", "o", "r", "c", "o", "n", "f", "i", "g">>
WalkNames == <<NameHidden, NameA, NameD>>
NameSet == {WalkNames[k] : k \in DOMAIN WalkNames}

PatNameD == <<"d">>

\* an entry of the target directory: nothing, a file (isBinaryFile says
\* whether it is skipped as binary), or a directory with its files
Entries ==
  [kind : {"none"}]
    \cup [kind : {"file"}, binary : BOOLEAN]
    \cup [kind : {"dir"}, children : [NameSet -> {"none", "file"}]]

\* the walk function on a file
VisitFile(name, p, binary, excludes) ==
  IF name = EditorConfigName THEN <<>>
  ELSE IF HasPrefix(name, <<".">>) THEN <<>>
  ELSE IF shouldIgnore(excludes, p) THEN <<>>
  ELSE IF binary THEN <<>>
  ELSE <<p>>

\* the files of a directory below the root, names k.. in lexical order
RECURSIVE VisitChildren(_, _, _, _)
VisitChildren(children, p, excludes, k) ==
  IF k > Len(WalkNames) THEN <<>>
  ELSE (IF children[WalkNames[k]] = "file"
        THEN VisitFile(WalkNames[k], p \o <<"/">> \o WalkNames[k], FALSE, excludes)
        ELSE <<>>)
       \o VisitChildren(children, p, excludes, k + 1)

\* the walk function on a directory below the root
VisitDir(e, p, rec, excludes) ==
  IF shouldIgnore(excludes, p) THEN <<>>
  ELSE IF ~rec THEN <<>>
  ELSE VisitChildren(e.children, p, excludes, 1)

\* the entries of the root, names k.. in lexical order
RECURSIVE VisitRoot(_, _, _, _)
VisitRoot(t, rec, excludes, k) ==
  IF k > Len(WalkNames) THEN <<>>
  ELSE LET name == WalkNames[k]
           e == t[name]
           p == RootPath \o <<"/">> \o name
       IN (CASE e.kind = "none" -> <<>>
             [] e.kind = "file" -> VisitFile(name, p, e.binary, excludes)
             [] e.kind = "dir" -> VisitDir(e, p, rec, excludes))
          \o VisitRoot(t, rec, excludes, k + 1)

collectFiles(t, rec, excludes) ==
  IF shouldIgnore(excludes, RootPath) THEN <<>>
  ELSE VisitRoot(t, rec, excludes, 1)

WalkInit ==
  /\ tree \in [NameSet -> Entries]
  /\ recursive \in BOOLEAN
  /\ excludePatterns \in SeqsUpTo({PatNameD, PatDirStar}, 1)
  /\ normalizedPath = <<>> /\ ignored = FALSE /\ ipc = "idle"
  /\ walked = <<>>
  /\ wpc = "walk"
  /\ FixIdle
  /\ PatIdle
  /\ CfgIdle
  /\ RuleIdle
  /\ RunIdle

\* files, err := v.collectFiles(directory)
CollectFiles ==
  /\ wpc = "walk"
  /\ walked' = collectFiles(tree, recursive, excludePatterns)
  /\ wpc' = "done"
  /\ UNCHANGED <<tree, recursive>>

WalkNext ==
  \/ /\ CollectFiles /\ UNCHANGED <<fixVars, patVars, cfgVars, ignVars, ruleVars, runVars>>

SpecWalk == WalkInit /\ [][WalkNext]_vars

----------------------------------------------------------------------------
(* ValidateTarget: a single file, or a directory through the worker        *)
(* pipeline of validateFilesParallel / fixFilesParallel.  Files are named  *)
(* by their index in walk order.  The configuration comes from the        *)
(* .editorconfig files of the hierarchy, which collectFiles never returns, *)
(* or from Config.CustomConfigPath, which may name one of the files.       *)

\* most files the directory holds, and the number of worker goroutines
MaxFiles == 2
NumWorkers == 2

\* the configuration the sections resolve to for every file of the run
RunConfig ==
  [EmptyResolvedConfig EXCEPT !.InsertFinalNewline = Ptr(TRUE),
                              !.TrimTrailingWhitespace = Ptr(TRUE),
                              !.EndOfLine = "lf"]

\* a file that passes, a file that violates two rules, a file that cannot
\* be read, and a file whose configuration does not resolve
CleanFile == [readable |-> TRUE, resolves |-> TRUE, content |-> <<"a", LF>>]
DirtyFile == [readable |-> TRUE, resolves |-> TRUE, content |-> <<"a", SP>>]
UnreadableFile == [readable |-> FALSE, resolves |-> TRUE, content |-> <<"a", SP>>]
UnresolvableFile == [readable |-> TRUE, resolves |-> FALSE, content |-> <<"a", SP>>]

FilePool == {CleanFile, DirtyFile, UnreadableFile, UnresolvableFile}

\* rules.ValidationError{FilePath, Rule, Message}
FileError(filePath, rule, line) == [FilePath |-> filePath, Rule |-> rule, Line |-> line]

\* the loop over GetAllValidators()
RECURSIVE RunValidators(_, _, _, _)
RunValidators(filePath, c, config, i) ==
  IF i > Len(GetAllValidators) THEN <<>>
  ELSE LET err == CallValidator(GetAllValidators[i], c, config)
       IN (IF err # Nil THEN <<FileError(filePath, err[1].Rule, err[1].Line)>> ELSE <<>>)
          \o RunValidators(filePath, c, config, i + 1)

\* validateFile that goes on to the validators after a failed read
validateFileGoesOn(filePath, f, c, config) ==
  IF ~f.readable
  THEN <<FileError(filePath, "file_access", 0)>> \o RunValidators(filePath, <<>>, config, 1)
  ELSE RunValidators(filePath, c, config, 1)

validateFile(filePath, f, c, config) ==
  IF ~f.readable THEN <<FileError(filePath, "file_access", 0)>>
  ELSE RunValidators(filePath, c, config, 1)

validateSingleFileErrors(filePath, f, c, hasConfig) ==
  IF ~hasConfig THEN [err |-> "editorconfig not found", errors |-> <<>>]
  ELSE IF ~f.resolves THEN [err |-> "failed to resolve config", errors |-> <<>>]
  ELSE [err |-> "nil", errors |-> validateFile(filePath, f, c, RunConfig)]

validateSingleFileSync(filePath, f, c, hasConfig) ==
  LET r == validateSingleFileErrors(filePath, f, c, hasConfig)
  IN IF r.err # "nil" THEN <<FileError(filePath, "file_access", 0)>> ELSE r.errors

\* the loop over GetAllFixers()
RECURSIVE RunFixers(_, _, _, _)
RunFixers(c, wasModified, config, i) ==
  IF i > Len(GetAllFixers) THEN [content |-> c, modified |-> wasModified]
  ELSE LET r == CallFixer(GetAllFixers[i], c, config)
       IN RunFixers(IF r.changed THEN r.content ELSE c, wasModified \/ r.changed,
                    config, i + 1)

\* what the loop makes of the contents of the pool, computed once
FixedContents ==
  [c \in {f.content : f \in FilePool} |-> RunFixers(c, FALSE, RunConfig, 1)]

\* fixSingleFile: the error, the returned flag and the bytes left on disk
fixSingleFile(f, c, hasConfig) ==
  IF ~hasConfig THEN [err |-> "editorconfig not found", fixed |-> FALSE, content |-> c]
  ELSE IF ~f.resolves
    THEN [err |-> "failed to resolve config", fixed |-> FALSE, content |-> c]
  ELSE IF ~f.readable THEN [err |-> "could not read file", fixed |-> FALSE, content |-> c]
  ELSE LET r == IF c \in DOMAIN FixedContents THEN FixedContents[c]
                ELSE RunFixers(c, FALSE, RunConfig, 1)
       IN [err |-> "nil", fixed |-> r.modified, content |-> r.content]

\* validate mode returning nil whatever was collected
ValidationNeverFails(errors) == "nil"

\* if len(errors) > 0 { return fmt.Errorf("validation failed with %d errors") }
ValidationFailed(errors) == IF Len(errors) > 0 THEN "validation failed" ELSE "nil"

RunInit ==
  /\ target \in {"file", "dir"}
  /\ failure \in {"none", "stat", "noconfig"} \cup (IF target = "dir" THEN {"walk"} ELSE {})
  /\ fixMode \in BOOLEAN
  /\ files \in IF target = "file" THEN {<<f>> : f \in FilePool}
               ELSE SeqsUpTo(FilePool, MaxFiles)
  /\ fdisk = [i \in DOMAIN files |-> files[i].content]
  /\ jobs = <<>> /\ jobsClosed = FALSE /\ nextJob = 0
  /\ results = <<>> /\ resultsClosed = FALSE
  /\ workers = <<>>
  /\ collected = <<>>
  /\ mainpc = "start"
  /\ ret = ""
  /\ total = 0
  /\ handled = [i \in DOMAIN files |-> 0]
  \* a custom configuration file that is enumerated exists, can be read, and
  \* is the one configuration of every file
  /\ customJob \in {0} \cup {c \in DOMAIN files : /\ target = "dir" /\ failure = "none"
                                                  /\ files[c].readable
                                                  /\ \A i \in DOMAIN files : files[i].resolves}
  /\ FixIdle /\ PatIdle /\ CfgIdle /\ IgnIdle /\ RuleIdle /\ WalkIdle

pipeVars == <<jobs, jobsClosed, nextJob, results, resultsClosed, workers>>

\* ValidateTarget: os.Stat(target) fails
StatFails ==
  /\ mainpc = "start" /\ failure = "stat"
  /\ ret' = "cannot access target"
  /\ mainpc' = "returned"
  /\ UNCHANGED <<target, failure, fixMode, files, customJob, handled, total, fdisk, pipeVars, collected>>

\* validateSingleFile, validate mode
ValidateSingleFile ==
  /\ mainpc = "start" /\ failure # "stat" /\ target = "file" /\ ~fixMode
  /\ LET r == validateSingleFileErrors(1, files[1], fdisk[1], failure # "noconfig")
     IN IF r.err # "nil"
        THEN ret' = r.err /\ collected' = collected /\ total' = total
        ELSE ret' = ValidationFailed(r.errors) /\ collected' = r.errors /\ total' = 1
  /\ mainpc' = "returned"
  /\ UNCHANGED <<target, failure, fixMode, files, customJob, handled, fdisk, pipeVars>>

\* validateSingleFile, fix mode
FixSingleFile ==
  /\ mainpc = "start" /\ failure # "stat" /\ target = "file" /\ fixMode
  /\ LET r == fixSingleFile(files[1], fdisk[1], failure # "noconfig")
     IN IF r.err # "nil"
        THEN ret' = r.err /\ collected' = collected /\ fdisk' = fdisk /\ total' = total
        ELSE /\ ret' = "nil"
             /\ collected' = IF r.fixed THEN <<1>> ELSE <<>>
             /\ fdisk' = [fdisk EXCEPT ![1] = r.content]
             /\ total' = 1
  /\ mainpc' = "returned"
  /\ UNCHANGED <<target, failure, fixMode, files, customJob, handled, pipeVars>>

\* validateDirectory: checkForEditorConfig finds no .editorconfig
DirNoConfig ==
  /\ mainpc = "start" /\ failure = "noconfig" /\ target = "dir"
  /\ ret' = "editorconfig not found"
  /\ mainpc' = "returned"
  /\ UNCHANGED <<target, failure, fixMode, files, customJob, handled, total, fdisk, pipeVars, collected>>

\* collectFiles returns the error of filepath.Walk
WalkFails ==
  /\ mainpc = "start" /\ failure = "walk" /\ target = "dir"
  /\ ret' = "walk error"
  /\ mainpc' = "returned"
  /\ UNCHANGED <<target, failure, fixMode, files, customJob, handled, total, fdisk, pipeVars, collected>>

\* collectFiles returns no file: the pipeline is not started
DirEmpty ==
  /\ mainpc = "start" /\ failure = "none" /\ target = "dir" /\ Len(files) = 0
  /\ ret' = IF fixMode THEN "nil" ELSE ValidationFailed(<<>>)
  /\ mainpc' = "returned"
  /\ UNCHANGED <<target, failure, fixMode, files, customJob, handled, total, fdisk, pipeVars, collected>>

\* the channels are made and the goroutines started
StartPipeline ==
  /\ mainpc = "start" /\ failure = "none" /\ target = "dir" /\ Len(files) > 0
  /\ \E n \in 1..NumWorkers :
       workers' = [w \in 1..n |-> [pc |-> "recv", job |-> 0, res |-> <<>>]]
  /\ nextJob' = 1
  /\ mainpc' = "collect"
  /\ UNCHANGED <<target, failure, fixMode, files, customJob, handled, total, fdisk, jobs, jobsClosed, results,
                 resultsClosed, collected, ret>>

\* the sending goroutine: jobs <- file
SendJob ==
  /\ nextJob \in 1..Len(files)
  /\ Len(jobs) < Len(files)
  /\ jobs' = Append(jobs, nextJob)
  /\ nextJob' = nextJob + 1
  /\ UNCHANGED <<target, failure, fixMode, files, customJob, handled, total, fdisk, jobsClosed, results,
                 resultsClosed, workers, collected, mainpc, ret>>

\* the sending goroutine: defer close(jobs)
CloseJobs ==
  /\ nextJob > Len(files) /\ ~jobsClosed
  /\ jobsClosed' = TRUE
  /\ UNCHANGED <<target, failure, fixMode, files, customJob, handled, total, fdisk, jobs, nextJob, results,
                 resultsClosed, workers, collected, mainpc, ret>>

\* a worker: for job := range jobs
WorkerReceive(w) ==
  /\ workers[w].pc = "recv" /\ Len(jobs) > 0
  /\ workers' = [workers EXCEPT ![w] = [pc |-> "work", job |-> Head(jobs), res |-> <<>>]]
  /\ jobs' = Tail(jobs)
  /\ UNCHANGED <<target, failure, fixMode, files, customJob, handled, total, fdisk, jobsClosed, nextJob, results,
                 resultsClosed, collected, mainpc, ret>>

\* a worker: the range loop ends, defer wg.Done()
WorkerExit(w) ==
  /\ workers[w].pc = "recv" /\ Len(jobs) = 0 /\ jobsClosed
  /\ workers' = [workers EXCEPT ![w].pc = "done"]
  /\ UNCHANGED <<target, failure, fixMode, files, customJob, handled, total, fdisk, jobs, jobsClosed, nextJob,
                 results, resultsClosed, collected, mainpc, ret>>

\* a worker of validateFilesParallel: errors := v.validateSingleFileSync(job.Path)
WorkerValidate(w) ==
  /\ ~fixMode /\ workers[w].pc = "work"
  /\ LET j == workers[w].job
     IN /\ workers' = [workers EXCEPT
                         ![w].pc = "send",
                         ![w].res = validateSingleFileSync(j, files[j], fdisk[j], TRUE)]
        /\ handled' = [handled EXCEPT ![j] = @ + 1]
  /\ UNCHANGED <<target, failure, fixMode, files, customJob, total, fdisk, jobs, jobsClosed, nextJob,
                 results, resultsClosed, collected, mainpc, ret>>

\* a worker that, when fixSingleFile fails, waits for someone to take the error
WorkerFixBlocksOnError(w) ==
  /\ fixMode /\ workers[w].pc = "work"
  /\ LET j == workers[w].job
         r == fixSingleFile(files[j], fdisk[j], TRUE)
     IN /\ IF r.err # "nil"
           THEN workers' = [workers EXCEPT ![w].pc = "blocked"] /\ fdisk' = fdisk
           ELSE /\ workers' = [workers EXCEPT ![w].pc = "send",
                                              ![w].res = IF r.fixed THEN <<j>> ELSE <<>>]
                /\ fdisk' = [fdisk EXCEPT ![j] = r.content]
        /\ handled' = [handled EXCEPT ![j] = @ + 1]
  /\ UNCHANGED <<target, failure, fixMode, files, customJob, total, jobs, jobsClosed, nextJob,
                 results, resultsClosed, collected, mainpc, ret>>

\* a worker of fixFilesParallel: fixed, err := v.fixSingleFile(job.Path)
WorkerFix(w) ==
  /\ fixMode /\ workers[w].pc = "work"
  /\ LET j == workers[w].job
         r == fixSingleFile(files[j], fdisk[j], TRUE)
     IN /\ IF r.err # "nil"
           THEN workers' = [workers EXCEPT ![w].pc = "recv"] /\ fdisk' = fdisk
           ELSE /\ workers' = [workers EXCEPT ![w].pc = "send",
                                              ![w].res = IF r.fixed THEN <<j>> ELSE <<>>]
                /\ fdisk' = [fdisk EXCEPT ![j] = r.content]
        /\ handled' = [handled EXCEPT ![j] = @ + 1]
  /\ UNCHANGED <<target, failure, fixMode, files, customJob, total, jobs, jobsClosed, nextJob,
                 results, resultsClosed, collected, mainpc, ret>>

\* the enumerated files a worker inside fixSingleFile reads: the file
\* FindEditorConfigsWithCustomConfig parses, and its job once the
\* configuration is resolved
FilesRead(w) ==
  LET j == workers[w].job
  IN (IF customJob # 0 THEN {customJob} ELSE {})
       \cup (IF files[j].resolves THEN {j} ELSE {})

\* the enumerated files a worker inside fixSingleFile writes: its job, when
\* a fixer changed the content
FilesWritten(w) ==
  LET j == workers[w].job
      r == fixSingleFile(files[j], fdisk[j], TRUE)
  IN IF r.err = "nil" /\ r.fixed THEN {j} ELSE {}

\* a worker: results <- ...
WorkerSend(w) ==
  /\ workers[w].pc = "send" /\ Len(results) < Len(files)
  /\ results' = Append(results, workers[w].res)
  /\ workers' = [workers EXCEPT ![w].pc = "recv"]
  /\ UNCHANGED <<target, failure, fixMode, files, customJob, handled, total, fdisk, jobs, jobsClosed, nextJob,
                 resultsClosed, collected, mainpc, ret>>

\* a waiting goroutine that closes results without the join
CloseResultsEarly ==
  /\ Len(workers) > 0
  /\ ~resultsClosed
  /\ resultsClosed' = TRUE
  /\ UNCHANGED <<target, failure, fixMode, files, customJob, handled, total, fdisk, jobs,
                 jobsClosed, nextJob, results, workers, collected, mainpc, ret>>

\* the waiting goroutine: wg.Wait(); close(results)
CloseResults ==
  /\ Len(workers) > 0 /\ \A w \in DOMAIN workers : workers[w].pc = "done"
  /\ ~resultsClosed
  /\ resultsClosed' = TRUE
  /\ UNCHANGED <<target, failure, fixMode, files, customJob, handled, total, fdisk, jobs, jobsClosed, nextJob,
                 results, workers, collected, mainpc, ret>>

\* a caller that keeps only the list it received last
CollectKeepsLast ==
  /\ mainpc = "collect" /\ Len(results) > 0
  /\ collected' = Head(results)
  /\ results' = Tail(results)
  /\ UNCHANGED <<target, failure, fixMode, files, customJob, handled, total, fdisk, jobs,
                 jobsClosed, nextJob, resultsClosed, workers, mainpc, ret>>

\* the caller: for ... := range results
Collect ==
  /\ mainpc = "collect" /\ Len(results) > 0
  /\ collected' = collected \o Head(results)
  /\ results' = Tail(results)
  /\ UNCHANGED <<target, failure, fixMode, files, customJob, handled, total, fdisk, jobs, jobsClosed, nextJob,
                 resultsClosed, workers, mainpc, ret>>

\* the range loop ends; validateDirectory formats the result and returns
Finish ==
  /\ mainpc = "collect" /\ Len(results) = 0 /\ resultsClosed
  /\ ret' = IF fixMode THEN "nil" ELSE ValidationFailed(collected)
  /\ total' = Len(files)
  /\ mainpc' = "returned"
  /\ UNCHANGED <<target, failure, fixMode, files, customJob, handled, fdisk, pipeVars, collected>>

otherVars == <<fixVars, patVars, cfgVars, ignVars, ruleVars, walkVars>>

RunNext ==
  \/ /\ StatFails /\ UNCHANGED otherVars
  \/ /\ ValidateSingleFile /\ UNCHANGED otherVars
  \/ /\ FixSingleFile /\ UNCHANGED otherVars
  \/ /\ DirNoConfig /\ UNCHANGED otherVars
  \/ /\ WalkFails /\ UNCHANGED otherVars
  \/ /\ DirEmpty /\ UNCHANGED otherVars
  \/ /\ StartPipeline /\ UNCHANGED otherVars
  \/ /\ SendJob /\ UNCHANGED otherVars
  \/ /\ CloseJobs /\ UNCHANGED otherVars
  \/ /\ \E w \in DOMAIN workers : WorkerReceive(w) /\ UNCHANGED otherVars
  \/ /\ \E w \in DOMAIN workers : WorkerExit(w) /\ UNCHANGED otherVars
  \/ /\ \E w \in DOMAIN workers : WorkerValidate(w) /\ UNCHANGED otherVars
  \/ /\ \E w \in DOMAIN workers : WorkerFix(w) /\ UNCHANGED otherVars
  \/ /\ \E w \in DOMAIN workers : WorkerSend(w) /\ UNCHANGED otherVars
  \/ /\ CloseResults /\ UNCHANGED otherVars
  \/ /\ Collect /\ UNCHANGED otherVars
  \/ /\ Finish /\ UNCHANGED otherVars

SpecRun == RunInit /\ [][RunNext]_vars

\* the steps of the calling goroutine, of the sending goroutine and of worker w
MainStep ==
  \/ StatFails \/ ValidateSingleFile \/ FixSingleFile \/ DirNoConfig \/ WalkFails
  \/ DirEmpty \/ StartPipeline \/ Collect \/ Finish

SenderStep == SendJob \/ CloseJobs

WorkerStep(w) ==
  /\ w \in DOMAIN workers
  /\ \/ WorkerReceive(w) \/ WorkerExit(w) \/ WorkerValidate(w) \/ WorkerFix(w)
     \/ WorkerSend(w)

\* the Go scheduler runs every goroutine that can take a step
RunFairness ==
  /\ WF_vars(MainStep /\ UNCHANGED otherVars)
  /\ WF_vars(SenderStep /\ UNCHANGED otherVars)
  /\ \A w \in 1..NumWorkers : WF_vars(WorkerStep(w) /\ UNCHANGED otherVars)
  /\ WF_vars(CloseResults /\ UNCHANGED otherVars)

SpecRunFair == RunInit /\ [][RunNext]_vars /\ RunFairness

----------------------------------------------------------------------------
(* Claims about the fix loop *)

Position(name) == CHOOSE i \in DOMAIN applied : applied[i] = name
Called(name) == \E i \in DOMAIN applied : applied[i] = name

\* C1: in a run of the fix loop FixEndOfLine is called before
\* FixTrimTrailingWhitespace and before FixInsertFinalNewline, and
\* FixInsertFinalNewline is called last: whenever one of the two later
\* fixers has been called, FixEndOfLine was called before it, and no fixer
\* is called after FixInsertFinalNewline.
C1_EndOfLineFirstFinalNewlineLast ==
  /\ \A name \in {"FixTrimTrailingWhitespace", "FixInsertFinalNewline"} :
       Called(name) => /\ Called("FixEndOfLine")
                       /\ Position("FixEndOfLine") < Position(name)
  /\ Called("FixInsertFinalNewline") =>
       Position("FixInsertFinalNewline") = Len(applied)

\* C2: a second run of the whole fix loop on the output of the first run
\* changes nothing: every fixer returns changed = false and the content
\* stays the bytes on disk.
C2_SecondRunChangesNothing ==
  (run >= 2 /\ pc \in {"fix", "done"}) =>
     /\ \A i \in DOMAIN changes : ~changes[i]
     /\ content = disk
     /\ ~modified

----------------------------------------------------------------------------
(* Claims about the pattern matcher *)

\* C7: the bare pattern `*` compiles and accepts every relative path, also
\* the paths that contain the separator '/'.
C7_BareStarMatchesEverything ==
  pattern = PatStar => /\ ppc # "error"
                       /\ ppc = "done" => matched

\* C8: ConvertPatternToRegex applied to the bare pattern `*` returns
\* ^[^/]*$, the translation `*` has inside `*.go`.
C8_BareStarIsSegmentRun ==
  (pattern = PatStar /\ ppc # "convert") => regex = <<"^">> \o SegmentRun \o <<"$">>

\* the glob characters other than the star
GlobSpecial == {"?", "[", "]", "{", "}", BS}

\* a pattern made of literal characters and stars only
IsStarPattern(p) == \A i \in DOMAIN p : p[i] \notin GlobSpecial

\* the meaning of such a pattern: `**` is a run of characters of one line,
\* '/' included, `*` is a run of characters without '/', any other character
\* is itself, and the whole path has to be consumed
RECURSIVE GlobAccepts(_, _)
GlobAccepts(p, s) ==
  IF Len(p) = 0 THEN Len(s) = 0
  ELSE IF HasPrefix(p, <<"*", "*">>)
    THEN \E k \in 0..Len(s) : /\ \A i \in 1..k : s[i] # LF
                              /\ GlobAccepts(Drop(p, 2), Drop(s, k))
  ELSE IF Head(p) = "*"
    THEN \E k \in 0..Len(s) : /\ \A i \in 1..k : s[i] # "/"
                              /\ GlobAccepts(Tail(p), Drop(s, k))
  ELSE Len(s) > 0 /\ Head(s) = Head(p) /\ GlobAccepts(Tail(p), Tail(s))

Index(s, c) == CHOOSE i \in DOMAIN s : s[i] = c /\ \A j \in 1..(i - 1) : s[j] # c

\* a pattern with a brace group {...} that has at least one character
HasBraceGroup(p) ==
  /\ \E i \in DOMAIN p : p[i] = "{"
  /\ LET rest == Drop(p, Index(p, "{"))
     IN /\ \E k \in DOMAIN rest : rest[k] = "}"
        /\ Index(rest, "}") > 1

\* the patterns obtained by replacing the first brace group by one of its
\* comma-separated alternatives
BraceExpansions(p) ==
  LET i == Index(p, "{")
      rest == Drop(p, i)
      k == Index(rest, "}")
      alts == Split(Take(rest, k - 1), ",")
  IN {Take(p, i - 1) \o alts[n] \o Drop(rest, k) : n \in DOMAIN alts}

\* C10: a pattern containing {a,b,c} matches a path iff the path matches
\* the pattern with the braces replaced by one of the alternatives, each
\* alternative being a literal or a glob sub-pattern: {*.js,lib.ts} accepts
\* x.js and lib.ts.
C10_BraceAlternation ==
  (ppc = "done" /\ HasBraceGroup(pattern)) =>
     (matched <=> \E e \in BraceExpansions(pattern) :
                     LET re == ConvertPatternToRegex(e)
                     IN CompileOK(re, 1) /\ MatchString(re, path))

----------------------------------------------------------------------------
(* Claims about discovery and resolution *)

\* the section applies to the target: its pattern matches the path of the
\* target relative to the directory of the document
Applies(doc, sec) == matchesPattern(RelPath(doc.FilePath), sec.Pattern).matches

\* the raw values assigned to `key` by the applicable sections, documents
\* outermost first and sections in file order
RECURSIVE AssignmentsIn(_, _, _)
AssignmentsIn(doc, sections, key) ==
  IF Len(sections) = 0 THEN <<>>
  ELSE (IF Applies(doc, Head(sections)) /\ key \in DOMAIN Head(sections).Properties
        THEN <<Head(sections).Properties[key]>> ELSE <<>>)
       \o AssignmentsIn(doc, Tail(sections), key)

RECURSIVE Assignments(_, _)
Assignments(docs, key) ==
  IF Len(docs) = 0 THEN <<>>
  ELSE AssignmentsIn(Head(docs), Head(docs).Sections, key) \o Assignments(Tail(docs), key)

Last(seq) == seq[Len(seq)]

EndOfLineOf(v) == IF v = VLf THEN "lf" ELSE IF v = VCrlf THEN "crlf" ELSE "cr"

MoreSpecific(p, q) == q = PatStar /\ p \notin {PatStar, PatStarStar}

\* C4: when two sections of the nearest document both match the file and
\* set the same property, and one pattern is more specific than the other,
\* the resolved value is the one of the more specific section, whichever
\* section is declared first.
C4_MoreSpecificPatternWins ==
  cpc = "done" =>
    LET doc == Last(configs)
    IN \A i, j \in DOMAIN doc.Sections :
         (/\ Applies(doc, doc.Sections[i])
          /\ Applies(doc, doc.Sections[j])
          /\ MoreSpecific(doc.Sections[i].Pattern, doc.Sections[j].Pattern)
          /\ "end_of_line" \in DOMAIN doc.Sections[i].Properties
          /\ "end_of_line" \in DOMAIN doc.Sections[j].Properties)
         => resolved.EndOfLine = EndOfLineOf(doc.Sections[i].Properties["end_of_line"])

\* the documents of the directories from level `from` down to the target's
RECURSIVE DocsFrom(_)
DocsFrom(from) ==
  IF from > Depth THEN <<>>
  ELSE (IF fs[from].Exists THEN <<ParseEditorConfig(from)>> ELSE <<>>) \o DocsFrom(from + 1)

IsRootLevel(l) == fs[l].Exists /\ fs[l].Root

\* C5: without a custom path, no document of a strict ancestor directory of
\* a root = true configuration file is returned by discovery, and the
\* resolved properties are those of the documents from the nearest such
\* file down to the target's directory.
C5_RootStopsDiscovery ==
  custom = 0 =>
    /\ \A l \in Levels : \A i \in DOMAIN configs :
         IsRootLevel(l) => configs[i].FilePath >= l
    /\ (cpc = "done" /\ \E l \in Levels : IsRootLevel(l)) =>
         LET nearest == CHOOSE l \in Levels :
                          IsRootLevel(l) /\ \A m \in Levels : IsRootLevel(m) => m <= l
         IN /\ configs = DocsFrom(nearest)
            /\ resolved = ResolveConfigForFile(DocsFrom(nearest)).config

\* a root = true file below an ancestor whose section matches the target
C5_Witness ==
  /\ custom = 0 /\ cpc = "done"
  /\ \E l \in Levels : \E a \in Levels :
       /\ a < l /\ IsRootLevel(l) /\ fs[a].Exists
       /\ \E i \in DOMAIN fs[a].Sections : Applies(ParseEditorConfig(a), fs[a].Sections[i])
       /\ \A i \in DOMAIN configs : configs[i].FilePath # a

\* C6: with a custom configuration path discovery returns exactly one
\* document, the parsed custom file, whatever the directories of the chain
\* hold, and the resolved properties are those of that document alone.
C6_CustomConfigIsExclusive ==
  (custom # 0 /\ cpc \in {"resolve", "done"}) =>
    /\ configs = <<ParseEditorConfig(custom)>>
    /\ cpc = "done" =>
         resolved = ApplySections([err |-> FALSE, config |-> EmptyResolvedConfig],
                                  fs[custom].Sections, RelPath(custom)).config

\* a custom file, and another directory whose configuration file would
\* have matched the target
C6_Witness ==
  /\ custom # 0 /\ cpc = "done" /\ Len(configs) = 1
  /\ \E a \in Levels :
       /\ a # custom /\ fs[a].Exists
       /\ \E i \in DOMAIN fs[a].Sections : Applies(ParseEditorConfig(a), fs[a].Sections[i])

----------------------------------------------------------------------------
(* Claims about malformed patterns *)

Count(p, c) == Cardinality({i \in DOMAIN p : p[i] = c})

\* a glob with an unbalanced brace or bracket
Malformed(p) == Count(p, "{") # Count(p, "}") \/ Count(p, "[") # Count(p, "]")

WellFormedSection(sec) == ~Malformed(sec.Pattern)
WellFormedPattern(p) == ~Malformed(p)

WithoutMalformed(docs) ==
  [i \in DOMAIN docs |->
     [docs[i] EXCEPT !.Sections = SelectSeq(docs[i].Sections, WellFormedSection)]]

\* C11: a malformed glob in a section header or in the exclusion list makes
\* the caller skip that one section or exclusion only: resolution succeeds
\* and yields what the other sections of all documents yield, and
\* shouldIgnore answers what the other exclusion patterns answer.
C11_MalformedGlobSkipsOneRule ==
  /\ (ipc # "idle" /\ cpc \in {"done", "error"}) =>
       /\ cpc = "done"
       /\ resolved = ResolveConfigForFile(WithoutMalformed(configs)).config
  /\ ipc = "done" =>
       ignored = shouldIgnore(SelectSeq(excludePatterns, WellFormedPattern), normalizedPath)

----------------------------------------------------------------------------
(* Claims about the rules *)

Returned(name) == rpc = "returned" /\ called = name

\* the lines of a content: the text of each line and the terminator that
\* ends it (CRLF, CR or LF), the last element being the text after the last
\* terminator, with no terminator
RECURSIVE LinesOf(_, _)
LinesOf(c, text) ==
  IF Len(c) = 0 THEN <<[text |-> text, end |-> <<>>]>>
  ELSE IF HasPrefix(c, <<CR, LF>>)
    THEN <<[text |-> text, end |-> <<CR, LF>>]>> \o LinesOf(Drop(c, 2), <<>>)
  ELSE IF Head(c) \in {CR, LF}
    THEN <<[text |-> text, end |-> <<Head(c)>>]>> \o LinesOf(Tail(c), <<>>)
  ELSE LinesOf(Tail(c), Append(text, Head(c)))

\* C12: for every content and every style in {lf, crlf, cr}, FixEndOfLine
\* returns a content whose every line terminator is the configured one and
\* which has the same number of lines with the same bytes in each line.
C12_EndOfLineRoundTrip ==
  (Returned("FixEndOfLine") /\ ruleCfg.EndOfLine \in {"lf", "crlf", "cr"}) =>
    LET before == LinesOf(input, <<>>)
        after == LinesOf(output.content, <<>>)
    IN /\ Len(after) = Len(before)
       /\ \A i \in DOMAIN after :
            /\ after[i].text = before[i].text
            /\ after[i].end \in {<<>>, EndingBytes(ruleCfg.EndOfLine)}
       /\ output.changed = (output.content # input)

\* a content that mixes LF, CRLF and CR, fixed to lf
C12_Witness ==
  /\ Returned("FixEndOfLine") /\ ruleCfg.EndOfLine = "lf"
  /\ input = <<LF, CR, LF, CR>>
  /\ output = Fixed(<<LF, LF, LF>>, TRUE)

Min(S) == CHOOSE m \in S : \A n \in S : m <= n

EndsWithWhitespace(text) == Len(text) > 0 /\ isWhitespace(text[Len(text)])

\* the numbers of the lines whose terminator is not `ending`
LinesWithOtherEnding(c, ending) ==
  {i \in DOMAIN LinesOf(c, <<>>) : LinesOf(c, <<>>)[i].end \notin {<<>>, ending}}

\* the numbers of the lines that end with a space or a tab
LinesWithTrailingWhitespace(c) ==
  {i \in DOMAIN LinesOf(c, <<>>) : EndsWithWhitespace(LinesOf(c, <<>>)[i].text)}

\* C13: a validator returns at most one violation, and the line reported by
\* ValidateEndOfLine and by ValidateTrimTrailingWhitespace is the smallest
\* line number that fails the rule; "a\r\nb\rc\n" with end_of_line = lf is
\* reported at line 1.
C13_FirstOffendingLine ==
  /\ rpc = "returned" => Len(verdict) <= 1
  /\ (Returned("ValidateEndOfLine") /\ ruleCfg.EndOfLine # "") =>
       LET bad == LinesWithOtherEnding(input, EndingBytes(ruleCfg.EndOfLine))
       IN verdict = IF bad = {} THEN Nil
                    ELSE Ptr(ValidationError("end_of_line", Min(bad)))
  /\ (Returned("ValidateEndOfLine") /\ ruleCfg.EndOfLine = "lf" /\ input = ExampleMixed) =>
       verdict = Ptr(ValidationError("end_of_line", 1))
  /\ (Returned("ValidateTrimTrailingWhitespace") /\ verdict # Nil) =>
       /\ LinesWithTrailingWhitespace(input) # {}
       /\ verdict = Ptr(ValidationError("trim_trailing_whitespace",
                                        Min(LinesWithTrailingWhitespace(input))))

\* the terminator that ends the content, <<>> when the content is empty or
\* its last byte is not part of a terminator
FinalTerminator(c) ==
  LET lines == LinesOf(c, <<>>)
  IN IF Len(lines) >= 2 /\ lines[Len(lines)].text = <<>>
     THEN lines[Len(lines) - 1].end ELSE <<>>

\* C14: with insert_final_newline true and end_of_line a style S,
\* ValidateInsertFinalNewline reports a violation iff the content is empty
\* or its final terminator is not exactly S, and FixInsertFinalNewline
\* returns a content whose final terminator is exactly S (S alone for the
\* empty content), which the validator accepts.
C14_FinalNewline ==
  (IsTrue(ruleCfg.InsertFinalNewline) /\ ruleCfg.EndOfLine \in {"lf", "crlf", "cr"}) =>
    LET S == EndingBytes(ruleCfg.EndOfLine)
    IN /\ Returned("ValidateInsertFinalNewline") =>
            (verdict # Nil <=> (Len(input) = 0 \/ FinalTerminator(input) # S))
       /\ Returned("FixInsertFinalNewline") =>
            /\ FinalTerminator(output.content) = S
            /\ Len(input) = 0 => output.content = S
            /\ ValidateInsertFinalNewline(output.content, ruleCfg) = Nil

\* C15: with trim_trailing_whitespace true, ValidateTrimTrailingWhitespace
\* reports a violation iff some line has a space or tab as its last
\* character before its terminator, whichever terminator ends the line.
C15_TrailingWhitespaceDetected ==
  (Returned("ValidateTrimTrailingWhitespace") /\ IsTrue(ruleCfg.TrimTrailingWhitespace)) =>
    (verdict # Nil <=> LinesWithTrailingWhitespace(input) # {})

\* C16: FixTrimTrailingWhitespace returns a content with the same number of
\* lines and the same terminator at the end of each line, each line being
\* the input's line without some spaces and tabs at its end.
C16_TrimChangesOnlyWhitespace ==
  Returned("FixTrimTrailingWhitespace") =>
    LET before == LinesOf(input, <<>>)
        after == LinesOf(output.content, <<>>)
    IN /\ Len(after) = Len(before)
       /\ \A i \in DOMAIN after :
            /\ after[i].end = before[i].end
            /\ HasPrefix(before[i].text, after[i].text)
            /\ \A k \in (Len(after[i].text) + 1)..Len(before[i].text) :
                 isWhitespace(before[i].text[k])

\* the rule `name` belongs to is switched off by the configuration
Gated(name, config) ==
  CASE name \in {"ValidateInsertFinalNewline", "FixInsertFinalNewline"} ->
         config.InsertFinalNewline \in {Nil, Ptr(FALSE)}
    [] name \in {"ValidateTrimTrailingWhitespace", "FixTrimTrailingWhitespace"} ->
         config.TrimTrailingWhitespace \in {Nil, Ptr(FALSE)}
    [] name \in {"ValidateEndOfLine", "FixEndOfLine"} -> config.EndOfLine = ""

\* C17: when the property that governs a rule is unset, or false for the
\* boolean properties, the validator of the rule reports no violation and
\* its fixer returns the input with changed = false, for every content.
C17_RuleGating ==
  (rpc = "returned" /\ Gated(called, ruleCfg)) =>
    /\ verdict = Nil
    /\ called \in {"FixInsertFinalNewline", "FixTrimTrailingWhitespace", "FixEndOfLine"} =>
         output = Fixed(input, FALSE)

\* each fixer called with its rule switched off on a content the rule,
\* switched on, would change
C17_Witness ==
  /\ rpc = "returned"
  /\ input = <<"a", SP, CR>>
  /\ ruleCfg.InsertFinalNewline = Nil
  /\ ruleCfg.TrimTrailingWhitespace = Ptr(FALSE)
  /\ ruleCfg.EndOfLine = ""
  /\ called = "FixTrimTrailingWhitespace"
  /\ output = Fixed(input, FALSE)

----------------------------------------------------------------------------
(* Claims about what fix mode writes *)

\* the rules the content violates: the validators that report a violation
Violations(c, config) ==
  {i \in DOMAIN GetAllValidators : CallValidator(GetAllValidators[i], c, config) # Nil}

\* C18: in fix mode a file is written back, and returned as fixed, only
\* when its content before the fix violates at least one rule: while the
\* fixers run and when fixSingleFile returns, modified is set only if some
\* validator reports a violation for the bytes the run started from.
C18_WrittenOnlyWhenViolated ==
  /\ (pc = "fix" /\ modified) => Violations(disk, cfg) # {}
  /\ (pc = "fix" /\ Violations(disk, cfg) = {}) => content = disk
  /\ (pc = "done" /\ ~modified) => content = disk

\* a file that passes the three rules, all switched on, is left alone
C18_Witness ==
  /\ pc = "done" /\ run = 1 /\ ~modified
  /\ disk = <<"a", LF>>
  /\ IsTrue(cfg.InsertFinalNewline) /\ IsTrue(cfg.TrimTrailingWhitespace)
  /\ cfg.EndOfLine = "lf"
  /\ Violations(disk, cfg) = {}

----------------------------------------------------------------------------
(* Claims about ValidateTarget *)

\* what validating file i yields
ExpectedErrors(i) == validateSingleFileSync(i, files[i], files[i].content, TRUE)

HasViolations == \E i \in DOMAIN files : ExpectedErrors(i) # <<>>

\* the run itself fails: the target cannot be accessed, no .editorconfig is
\* found, the walk fails, or for a single-file target the configuration does
\* not resolve or (fix mode) the file cannot be read
RunFailed ==
  \/ failure # "none"
  \/ /\ target = "file"
     /\ \/ ~files[1].resolves
        \/ fixMode /\ ~files[1].readable

CollectedFor(i) == SelectSeq(collected, LAMBDA e : e.FilePath = i)

\* C20: an unreadable file does not abort the run: validating it yields
\* exactly one violation for that file, of rule file_access, and every other
\* enumerated file is still validated and its violations reported.
C20_UnreadableFileIsOneViolation ==
  (mainpc = "returned" /\ ~fixMode /\ failure = "none") =>
    \A i \in DOMAIN files :
      /\ (~files[i].readable /\ files[i].resolves) =>
           CollectedFor(i) = <<FileError(i, "file_access", 0)>>
      /\ (files[i].readable /\ files[i].resolves) =>
           CollectedFor(i) = RunValidators(i, files[i].content, RunConfig, 1)

\* an unreadable file enumerated before a file with two violations
C20_Witness ==
  /\ mainpc = "returned" /\ target = "dir" /\ ~fixMode
  /\ files = <<UnreadableFile, DirtyFile>>
  /\ Len(CollectedFor(1)) = 1 /\ Len(CollectedFor(2)) = 2

----------------------------------------------------------------------------
(* Claims about the parallel fix pipeline *)

\* fixing file i fails
FixFails(i) == fixSingleFile(files[i], files[i].content, TRUE).err # "nil"

\* C21: when fixing one file of the directory fails, the pipeline's result
\* holds a record for that file, and every other enumerated file is still
\* processed (what fixSingleFile leaves is on disk, and a fixed file is
\* listed).
C21_FixFailureIsRecorded ==
  (mainpc = "returned" /\ fixMode /\ target = "dir" /\ failure = "none") =>
    \A i \in DOMAIN files :
      IF FixFails(i)
      THEN \E k \in DOMAIN collected : collected[k] = i
      ELSE LET r == fixSingleFile(files[i], files[i].content, TRUE)
           IN /\ fdisk[i] = r.content
              /\ r.fixed <=> \E k \in DOMAIN collected : collected[k] = i

\* the other files alone: every file whose fix does not fail is processed
\* whatever happens to its siblings
C21_SiblingsStillFixed ==
  (mainpc = "returned" /\ fixMode /\ target = "dir" /\ failure = "none") =>
    \A i \in DOMAIN files :
      ~FixFails(i) =>
        LET r == fixSingleFile(files[i], files[i].content, TRUE)
        IN /\ fdisk[i] = r.content
           /\ r.fixed <=> \E k \in DOMAIN collected : collected[k] = i

----------------------------------------------------------------------------
(* Claims about the parallel validate pipeline *)

\* how many times e occurs in the sequence s
CountIn(e, s) == Cardinality({k \in DOMAIN s : s[k] = e})

RECURSIVE CountInFiles(_, _)
CountInFiles(e, i) ==
  IF i = 0 THEN 0 ELSE CountIn(e, ExpectedErrors(i)) + CountInFiles(e, i - 1)

\* every violation that is collected or that some file has
AllViolations ==
  {collected[k] : k \in DOMAIN collected}
    \cup UNION {{ExpectedErrors(i)[k] : k \in DOMAIN ExpectedErrors(i)} : i \in DOMAIN files}

\* C22: in the parallel validate pipeline, for every worker count and every
\* interleaving, no file is ever validated twice, and when the pipeline
\* returns every enumerated file has been validated exactly once by one
\* worker, the returned violations are the multiset union of the per-file
\* violation lists, and the total is the number of enumerated files.
C22_Aggregation ==
  (~fixMode /\ target = "dir" /\ failure = "none") =>
    /\ \A i \in DOMAIN files : handled[i] <= 1
    /\ mainpc = "returned" =>
         /\ \A i \in DOMAIN files : handled[i] = 1
         /\ \A e \in AllViolations : CountIn(e, collected) = CountInFiles(e, Len(files))
         /\ total = Len(files)

\* two files with violations validated by two workers, the violations of
\* the second file collected before those of the first
C22_Witness ==
  /\ mainpc = "returned" /\ ~fixMode /\ target = "dir"
  /\ files = <<DirtyFile, DirtyFile>>
  /\ Len(workers) = 2
  /\ Len(collected) = 4 /\ collected[1].FilePath = 2

----------------------------------------------------------------------------
(* Claims about termination of the pipelines *)

AllWorkersDone == \A w \in DOMAIN workers : workers[w].pc = "done"

\* C23: under fair scheduling ValidateTarget returns, and once a pipeline
\* is started every worker eventually exits, the result channel is
\* eventually closed and the collector returns, for every number of files
\* and of workers, in validate and in fix mode, also when files fail.
C23_PipelinesTerminate ==
  /\ <>(mainpc = "returned")
  /\ (mainpc = "collect") ~> (AllWorkersDone /\ resultsClosed /\ mainpc = "returned")

\* a fix run over an unreadable file and a dirty one that has returned
C23_Witness ==
  /\ mainpc = "returned" /\ fixMode /\ target = "dir"
  /\ files = <<UnreadableFile, DirtyFile>>
  /\ Len(workers) = 2 /\ AllWorkersDone /\ resultsClosed
  /\ collected = <<2>>

----------------------------------------------------------------------------
(* Claims about the files the workers touch *)

\* worker w is inside fixSingleFile
Fixing(w) == fixMode /\ workers[w].pc = "work"

\* C24: during a parallel fix run no two workers are inside fixSingleFile
\* with one of them writing a file that the other reads or writes; in
\* particular the configuration file used for resolution is not rewritten
\* by one worker while another parses it.
C24_WorkersTouchDisjointFiles ==
  \A w1, w2 \in DOMAIN workers :
    (w1 # w2 /\ Fixing(w1) /\ Fixing(w2)) =>
      FilesWritten(w1) \cap (FilesRead(w2) \cup FilesWritten(w2)) = {}

\* the same with the configuration taken from the hierarchy only
C24_DisjointWithoutOverride ==
  customJob = 0 => C24_WorkersTouchDisjointFiles

----------------------------------------------------------------------------
(* Claims about enumeration *)

\* the path elements of p below the target directory
Below1(p) == Tail(Split(p, "/"))

IsHiddenName(name) == Len(name) > 0 /\ name[1] = "."

\* the directories on the way to p: the target directory, and below it the
\* prefixes of p that end before a separator
DirsAbove(p) == {SubSeq(p, 1, k - 1) : k \in {k \in DOMAIN p : p[k] = "/"}}

\* C25: collectFiles returns no file whose name starts with '.', in
\* recursive mode no file beneath a directory below the target whose name
\* starts with '.', and no file beneath an excluded directory.
C25_HiddenEntriesSkipped ==
  wpc = "done" =>
    \A k \in DOMAIN walked :
      LET parts == Below1(walked[k])
      IN /\ ~IsHiddenName(parts[Len(parts)])
         /\ recursive => \A i \in DOMAIN parts : ~IsHiddenName(parts[i])
         /\ \A d \in DirsAbove(walked[k]) : ~shouldIgnore(excludePatterns, d)

\* the parts that hold: hidden files are skipped, and excluded directories
\* are pruned with what they hold
C25_HiddenFilesAndExcludedDirs ==
  wpc = "done" =>
    \A k \in DOMAIN walked :
      LET parts == Below1(walked[k])
      IN /\ ~IsHiddenName(parts[Len(parts)])
         /\ \A d \in DirsAbove(walked[k]) : ~shouldIgnore(excludePatterns, d)

----------------------------------------------------------------------------
(* Claims about exclusion *)

\* p, and p without one or more of its leading path elements
Suffixes(p) ==
  {SubSeq(p, k + 1, Len(p)) : k \in {0} \cup {k \in DOMAIN p : p[k] = "/"}}

\* the pattern compiles and its expression accepts s
Accepts(pat, s) ==
  LET re == ConvertPatternToRegex(pat)
  IN CompileOK(re, 1) /\ MatchString(re, s)

\* C26: shouldIgnore returns true iff the compiled matcher of some exclusion
\* pattern accepts the normalized path or one of the suffixes left by
\* dropping leading path elements; with no pattern it returns false.
C26_ExcludeAtAnyDepth ==
  ipc = "done" =>
    /\ ignored <=> \E k \in DOMAIN excludePatterns :
                     \E sfx \in Suffixes(normalizedPath) : Accepts(excludePatterns[k], sfx)
    /\ excludePatterns = <<>> => ~ignored

\* a path ignored although no pattern accepts the path as a whole
C26_Witness ==
  /\ ipc = "done" /\ ignored
  /\ Len(normalizedPath) > 0 /\ normalizedPath[1] # "/"
  /\ \A k \in DOMAIN excludePatterns : ~Accepts(excludePatterns[k], normalizedPath)

----------------------------------------------------------------------------
(* Claims about the cascade of indent_size and max_line_length *)

\* the value of the last applicable assignment of key, <<>> if there is none
LastAssigned(docs, key) ==
  LET a == Assignments(docs, key) IN IF Len(a) = 0 THEN <<>> ELSE Last(a)

\* the documents with every assignment of key taken out
WithoutKey(docs, key) ==
  [d \in DOMAIN docs |->
     [docs[d] EXCEPT !.Sections =
        [i \in DOMAIN docs[d].Sections |->
           [docs[d].Sections[i] EXCEPT !.Properties =
              [k \in DOMAIN docs[d].Sections[i].Properties \ {key} |->
                 docs[d].Sections[i].Properties[k]]]]]]

\* C27: after a cascade whose last applicable indent_size assignment is
\* `tab`, the resolved properties differ from those of the same cascade
\* without any indent_size assignment, and no numeric indent size is left.
C27_IndentSizeTabIsDistinct ==
  (cpc = "done" /\ LastAssigned(configs, "indent_size") = VTab) =>
    /\ resolved # ResolveConfigForFile(WithoutKey(configs, "indent_size")).config
    /\ resolved.IndentSize = Nil

\* the part that holds: the numeric indent size is cleared
C27_IndentSizeTabClears ==
  (cpc = "done" /\ LastAssigned(configs, "indent_size") = VTab) =>
    resolved.IndentSize = Nil

\* max_line_length = 80 comes from the ancestor document and the nearer
\* document turns it off
OffAfterInherited ==
  /\ Len(configs) = 2
  /\ LastAssigned(<<configs[1]>>, "max_line_length") = VEighty
  /\ LastAssigned(<<configs[2]>>, "max_line_length") = VOff

\* contents whose one line is 0..MaxLen bytes long, with and without a
\* final line feed
LongLines ==
  {[i \in 1..n |-> "a"] : n \in 0..MaxLen}
    \cup {[i \in 1..n |-> "a"] \o <<LF>> : n \in 0..MaxLen}

\* C28: `max_line_length = off` in the nearer document after
\* `max_line_length = 80` from an ancestor document clears the resolved
\* limit, and no validator reports a line-length violation under the
\* resolved configuration, whatever the length of the lines.
C28_OffClearsInheritedLimit ==
  (cpc = "done" /\ OffAfterInherited) =>
    /\ resolved.MaxLineLength = Nil
    /\ \A c \in LongLines :
         \A k \in DOMAIN GetAllValidators :
           LET err == CallValidator(GetAllValidators[k], c, resolved)
           IN err = Nil \/ err[1].Rule # "max_line_length"

C28_Witness ==
  /\ cpc = "done" /\ OffAfterInherited
  /\ resolved.MaxLineLength = Nil

----------------------------------------------------------------------------
(* Claims about the channels *)

\* C29: the jobs channel is closed only after every enumerated file has
\* been sent on it, and the results channel only after every worker has
\* finished; no job is sent on jobs once it is closed and no worker sends
\* on results once it is closed.
C29_ChannelDiscipline ==
  /\ [](jobsClosed => nextJob = Len(files) + 1)
  /\ [](resultsClosed => (Len(workers) > 0 /\ AllWorkersDone))
  /\ [][SendJob => ~jobsClosed]_vars
  /\ [][(\E w \in DOMAIN workers : WorkerSend(w)) => ~resultsClosed]_vars

\* both channels closed while the caller still collects the results of two
\* files handled by two workers
C29_Witness ==
  /\ mainpc = "collect" /\ jobsClosed /\ resultsClosed
  /\ Len(files) = 2 /\ Len(workers) = 2 /\ Len(results) = 2

----------------------------------------------------------------------------
(* Claims about what the fix loop leaves *)

\* C30: the content one run of the fix loop leaves on disk (the fixers in
\* registry order) passes every registered validator under the same
\* configuration.
C30_FixedContentIsValid ==
  (pc = "done" /\ run = 1) => Violations(disk, cfg) = {}

====
